---- MODULE Spec2Model ----
(***************************************************************************)
(* Device lifecycle orchestration pipeline of dhcp-baremetal-provisioner:  *)
(* the workers under poc/services (discovery, provisioning, validation     *)
(* callback, hardening) and the lease workers under poc/dhcp-integration,  *)
(* against one Inventory Service (NetBox) and one Redis queue server.      *)
(* Every step of a worker is one external request (inventory, queue,       *)
(* management controller, configuration runner); the workers are separate  *)
(* processes, so their steps interleave.                                   *)
(***************************************************************************)
EXTENDS Integers, Sequences, FiniteSets, TLC

----------------------------------------------------------------------------
\* Bounds of the model.
MaxLeases == 2
MaxCallbacks == 2
MaxIpRecords == 3
MaxCycles == 2
MaxQueueOps == 4
MaxLines == 2
MaxSeconds == 1

----------------------------------------------------------------------------
\* config.py: lifecycle states.
STATE_OFFLINE == "offline"
STATE_PLANNED == "planned"
STATE_VALIDATING == "validating"
STATE_VALIDATED == "validated"
STATE_HARDENING == "hardening"
STATE_STAGED == "staged"
STATE_READY == "ready"
STATE_MONITORED == "monitored"
STATE_ERROR == "error"

\* The values the lifecycle_state custom field accepts (its choice set).
LifecycleChoices ==
    {STATE_OFFLINE, STATE_PLANNED, STATE_VALIDATING, STATE_VALIDATED,
     STATE_HARDENING, STATE_STAGED, STATE_READY, STATE_MONITORED, STATE_ERROR}

\* config.py: names of the device custom fields that carry timestamps.
NETBOX_FIELD_DISCOVERED_AT == "discovered_at"
NETBOX_FIELD_PXE_BOOT_INITIATED_AT == "pxe_boot_initiated_at"
NETBOX_FIELD_HARDENED_AT == "hardened_at"
NETBOX_FIELD_LAST_MONITORED_AT == "last_monitored_at"
NETBOX_FIELD_LAST_POWER_WATTS == "last_power_watts"
NETBOX_FIELD_LIFECYCLE_STATE == "lifecycle_state"

None == "None"

\* Interface names are strings of characters; the workers lower-case them and
\* search them for "ilo" and "bmc".
UpperCase == <<"A", "B", "C", "D", "E", "F", "G", "H", "I", "J", "K", "L", "M",
               "N", "O", "P", "Q", "R", "S", "T", "U", "V", "W", "X", "Y", "Z">>
LowerCase == <<"a", "b", "c", "d", "e", "f", "g", "h", "i", "j", "k", "l", "m",
               "n", "o", "p", "q", "r", "s", "t", "u", "v", "w", "x", "y", "z">>

Lower(c) ==
    IF \E k \in 1..Len(UpperCase) : UpperCase[k] = c
    THEN LowerCase[CHOOSE k \in 1..Len(UpperCase) : UpperCase[k] = c]
    ELSE c

lower(s) == [k \in 1..Len(s) |-> Lower(s[k])]

Upper(c) ==
    IF \E k \in 1..Len(LowerCase) : LowerCase[k] = c
    THEN UpperCase[CHOOSE k \in 1..Len(LowerCase) : LowerCase[k] = c]
    ELSE c

upper(s) == [k \in 1..Len(s) |-> Upper(s[k])]

\* s.replace(old, new) for single characters
replace(s, old, new) == [k \in 1..Len(s) |-> IF s[k] = old THEN new ELSE s[k]]

\* mac_address.upper().replace('-', ':')
mac_normalized(mac_address) == replace(upper(mac_address), "-", ":")

\* sub in s
Contains(sub, s) ==
    \E k \in 0..(Len(s) - Len(sub)) : SubSeq(s, k + 1, k + Len(sub)) = sub

BmcName == <<"b", "m", "c">>
Mgmt0Name == <<"m", "g", "m", "t", "0">>

NoInterface == [id |-> 0, device |-> 0, name |-> <<>>, mac |-> <<>>]

\* The inventory as populated: one server with its out-of-band interface and its
\* management interface.
Devices == {1}
UnknownDeviceId == 99
\* Hardware addresses are strings of characters, as the inventory stores them.
BmcMac ==
    <<"A", "0", ":", "3", "6", ":", "9", "F", ":", "C", "8", ":", "C", "0", ":", "5", "2">>
MgmtMac ==
    <<"A", "0", ":", "3", "6", ":", "9", "F", ":", "C", "8", ":", "C", "0", ":", "5", "3">>
OtherMac ==
    <<"A", "0", ":", "3", "6", ":", "9", "F", ":", "0", "0", ":", "0", "0", ":", "0", "1">>
MACs == {BmcMac, MgmtMac, OtherMac}
IPs == {"10.23.0.50", "10.23.0.51"}

\* The lease events observed: the server's controller leasing either address,
\* and a hardware address the inventory does not know.
LeaseEvents ==
    {[mac |-> BmcMac, ip |-> "10.23.0.50"], [mac |-> BmcMac, ip |-> "10.23.0.51"],
     [mac |-> OtherMac, ip |-> "10.23.0.50"]}

\* "<ip>/24": the address with the mask the workers append.
WithMask(ip) == <<ip, 24>>

----------------------------------------------------------------------------
VARIABLES
    lifecycle,      \* device -> custom field lifecycle_state
    stamps,         \* device -> the timestamp custom fields that are set
    comments,       \* device -> whether the hardware comment was written
    primary_ip4,    \* device -> whether the device has a primary IPv4
    ifaces,         \* inventory interface records [id, device, name, mac]
    ips,            \* inventory IP records [id, address, iface]
    enforceUnique,  \* whether the inventory rejects a duplicate address
    errLog,         \* MACs recorded in the error log as MAC_NOT_FOUND
    qLease,         \* bm:events:dhcp_lease
    qDisc,          \* bm:events:device_discovered
    qPxe,           \* bm:events:pxe_boot_initiated
    qVal,           \* bm:events:validation_completed
    qHard,          \* bm:events:hardening_completed
    disc,           \* discovery worker: position and locals
    prov,           \* provisioning worker: position, locals, the steps done for the event
    cb,             \* callback handler: position, locals, last response
    hard,           \* hardening worker: position and locals
    mon,            \* monitoring worker: position, the cycle's device list, locals
    metricsDocs,    \* metrics documents saved, as [dev, cycle]
    nCycle,         \* poll cycles started so far
    now,            \* the clock the monitoring worker reads, in seconds
    names,          \* device -> its name in the inventory
    metricsFiles,   \* the metrics directory: file name -> the document in the file
    redisLists,     \* lib/queue.py: queue name -> the JSON texts in the Redis list
    accepted,       \* queue name -> the messages publish answered True for
    returned,       \* queue name -> the messages consume returned
    qResult,        \* what the last Queue call returned
    nOps,           \* Queue calls made so far
    main,           \* a stage process: the stage, its position in main(), its locals
    env,            \* the environment the stage process was started in
    completed,      \* the events whose processing returned
    replay,         \* the event delivered a second time, and the state it met
    files,          \* log file -> the lines written to it
    pathFile,       \* the file the DHCP event log path names
    tailer,         \* dhcp_tailer: position, open file, lines read from it
    seen,           \* the lines handed to process_dhcp_event
    logErrors,      \* error records the tailer logged
    written,        \* the lines appended to the log path while the tailer runs
    feed,           \* the queue the DHCP source of this deployment publishes to
    cbWaiting,      \* callback_api: the request thread that is not on the processor
    status,         \* device -> the device's status field
    journal,        \* device -> kinds of journal entries written for it
    qNetboxLeases,  \* netbox:dhcp:leases
    qBmcDiscovered, \* netbox:bmc:discovered
    lw,             \* dhcp-lease-worker: position and locals
    bw,             \* netbox-bmc-worker: position and locals
    nLease,         \* lease events published so far
    nCb,            \* callbacks received so far
    lastCall        \* the external request the last step made, and its outcome

invVars == <<lifecycle, stamps, comments, primary_ip4, ifaces, ips, enforceUnique>>
queueVars == <<qLease, qDisc, qPxe, qVal, qHard>>
workerVars == <<disc, prov, cb, hard>>
monVars == <<mon, metricsDocs, nCycle, now, names, metricsFiles>>
libVars == <<redisLists, accepted, returned, qResult, nOps>>
bootVars == <<main, env, completed>>
tailVars == <<files, pathFile, tailer, seen, logErrors, written>>
deployVars == <<feed, cbWaiting>>
sideVars == <<deployVars, monVars, libVars, bootVars, replay, tailVars>>
dhcpVars == <<sideVars, status, journal, qNetboxLeases, qBmcDiscovered, lw, bw>>
vars == <<invVars, errLog, queueVars, workerVars, dhcpVars, nLease, nCb, lastCall>>

Idle == [pc |-> "idle"]
CbIdle(code) == [pc |-> "idle", resp |-> code]

\* The record of one step's external request.
Call(by, op, ok, dev, before, after) ==
    [by |-> by, op |-> op, ok |-> ok, dev |-> dev, before |-> before, after |-> after,
     result |-> None]

\* The same, for a request whose raw outcome matters.
CallResult(by, op, ok, dev, result) ==
    [by |-> by, op |-> op, ok |-> ok, dev |-> dev, before |-> None, after |-> None,
     result |-> result]

NoCall == Call("none", "none", TRUE, 0, None, None)

----------------------------------------------------------------------------
\* lib/netbox_client.py against the Inventory Service.

\* A lookup that ignores the filter and answers the first interface there is.
find_interface_by_mac_unfiltered(mac) ==
    CHOOSE i \in ifaces : \A j \in ifaces : i.id <= j.id

\* GET dcim/interfaces/?mac_address=<mac>: results[0] or None.
find_interface_by_mac(mac) ==
    LET found == {i \in ifaces : i.mac = mac}
    IN  IF found = {} THEN NoInterface
        ELSE CHOOSE i \in found : \A j \in found : i.id <= j.id

\* The same request against an inventory whose filter reads the value as a
\* hardware address, whatever its letter case and delimiter.
find_interface_by_mac_canonical(mac) ==
    LET found == {i \in ifaces : i.mac = mac_normalized(mac)}
    IN  IF found = {} THEN NoInterface
        ELSE CHOOSE i \in found : \A j \in found : i.id <= j.id

\* What the client can get for its request: it sends the value as it is, and
\* how the value is compared is the inventory's matter.
InterfaceAnswers(mac) ==
    {find_interface_by_mac(mac), find_interface_by_mac_canonical(mac)}

IpsOn(ifaceId) == {r \in ips : r.iface = ifaceId}

\* POST ipam/ip-addresses/: the service answers 400 to a duplicate address when
\* it enforces uniqueness, and creates a new record otherwise.
PostIpRejected(address) ==
    enforceUnique /\ \E r \in ips : r.address = address

PostIp(ifaceId, address) ==
    ips \cup {[id |-> Cardinality(ips) + 1, address |-> address, iface |-> ifaceId]}

----------------------------------------------------------------------------
\* The queue names the DHCP sources publish to.
QUEUE_DHCP_LEASE == "bm:events:dhcp_lease"
NETBOX_DHCP_LEASES == "netbox:dhcp:leases"
REDIS_QUEUE == "netbox:bmc:discovered"

\* lib/queue.py: the named lists start empty.
QUEUE_DEVICE_DISCOVERED == "bm:events:device_discovered"
QueueNames == {QUEUE_DHCP_LEASE, QUEUE_DEVICE_DISCOVERED}
NoMessage == {}
InitQueue ==
    /\ redisLists = [q \in QueueNames |-> <<>>]
    /\ accepted = [q \in QueueNames |-> <<>>]
    /\ returned = [q \in QueueNames |-> <<>>]
    /\ qResult = [op |-> "none", queue |-> "none", ok |-> TRUE, msg |-> NoMessage, len |-> 0]
    /\ nOps = 0

\* No stage process, no redelivery and no tailer are running.
NotStarted == [pc |-> "down"]
NoReplay == [stage |-> "none"]
InitBoot ==
    /\ main = NotStarted
    /\ env = [NETBOX_TOKEN |-> "secret", ILO_DEFAULT_PASSWORD |-> "secret"]
    /\ completed = <<>>
InitReplay == replay = NoReplay
InitTailer ==
    /\ files = <<>> /\ pathFile = 0
    /\ tailer = NotStarted
    /\ seen = <<>> /\ logErrors = 0 /\ written = <<>>
InitServices == InitBoot /\ InitReplay /\ InitTailer

\* The metrics directory before the first poll.
NoFiles == <<>>

\* The device statuses the lease workers distinguish.
StatusChoices == {"offline", "active", "planned"}

InitPipeline ==
    /\ lifecycle \in [Devices -> LifecycleChoices \ {STATE_MONITORED}]
    /\ stamps = [d \in Devices |-> {}]
    /\ comments = [d \in Devices |-> FALSE]
    /\ primary_ip4 \in [Devices -> BOOLEAN]
    /\ ifaces = {[id |-> 1, device |-> 1, name |-> BmcName, mac |-> BmcMac],
                 [id |-> 2, device |-> 1, name |-> Mgmt0Name, mac |-> MgmtMac]}
    /\ ips = {}
    /\ enforceUnique \in BOOLEAN
    /\ errLog = {}
    /\ qLease = <<>> /\ qDisc = <<>> /\ qPxe = <<>> /\ qVal = <<>> /\ qHard = <<>>
    /\ disc = Idle /\ prov = Idle /\ cb = CbIdle(0) /\ cbWaiting = CbIdle(0) /\ hard = Idle
    /\ nLease = 0 /\ nCb = 0
    /\ lastCall = NoCall
    /\ journal = [d \in Devices |-> {}]
    /\ qNetboxLeases = <<>> /\ qBmcDiscovered = <<>>
    /\ lw = Idle /\ bw = Idle
    /\ mon = Idle /\ metricsDocs = {} /\ nCycle = 0
    /\ now = 0 /\ metricsFiles = NoFiles
    /\ names = [d \in Devices |-> "srv-a"]
    /\ InitQueue

Init ==
    /\ InitPipeline
    /\ InitServices
    /\ feed = QUEUE_DHCP_LEASE
    /\ status = [d \in Devices |-> "offline"]

----------------------------------------------------------------------------
\* Lease ingestion publishes one well-formed lease event, one of `events`.
PublishLeaseOf(events) ==
    /\ feed = QUEUE_DHCP_LEASE
    /\ nLease < MaxLeases
    /\ \E event \in events : qLease' = Append(qLease, event)
    /\ nLease' = nLease + 1
    /\ lastCall' = NoCall
    /\ UNCHANGED <<invVars, errLog, qDisc, qPxe, qVal, qHard, workerVars, nCb>>
    /\ UNCHANGED dhcpVars

PublishLease == PublishLeaseOf(LeaseEvents)

\* In the whole pipeline: the server's controller leasing its address.
PublishServerLease == PublishLeaseOf({[mac |-> BmcMac, ip |-> "10.23.0.50"]})

----------------------------------------------------------------------------
\* services/discovery_worker.py

DiscConsume ==
    /\ disc.pc = "idle"
    /\ qLease # <<>>
    /\ disc' = [pc |-> "find", mac |-> Head(qLease).mac, ip |-> Head(qLease).ip]
    /\ qLease' = Tail(qLease)
    /\ lastCall' = Call("discovery", "consume", TRUE, 0, None, None)
    /\ UNCHANGED <<invVars, errLog, qDisc, qPxe, qVal, qHard, prov, cb, hard, nLease, nCb>>
    /\ UNCHANGED dhcpVars

\* Step 1: find the interface by MAC; unresolved -> error log, drop.
DiscFind ==
    /\ disc.pc = "find"
    /\ \E ok \in BOOLEAN, interface \in InterfaceAnswers(disc.mac) :
          /\ lastCall' = Call("discovery", "find_interface", ok, 0, None, None)
          /\ IF ~ok THEN disc' = Idle /\ errLog' = errLog
             ELSE IF interface = NoInterface
                  THEN disc' = Idle /\ errLog' = errLog \cup {disc.mac}
                  ELSE /\ disc' = [pc |-> "assign", mac |-> disc.mac, ip |-> disc.ip,
                                   dev |-> interface.device, iface |-> interface.id]
                       /\ errLog' = errLog
    /\ UNCHANGED <<invVars, queueVars, prov, cb, hard, nLease, nCb>>
    /\ UNCHANGED dhcpVars

\* Step 2: assign the IP; any failure is logged and processing continues.
DiscAssignResult(ok) ==
    IF ok /\ ~PostIpRejected(WithMask(disc.ip)) /\ Cardinality(ips) < MaxIpRecords
    THEN PostIp(disc.iface, WithMask(disc.ip))
    ELSE ips

DiscAssign ==
    /\ disc.pc = "assign"
    /\ \E ok \in BOOLEAN :
          /\ ips' = DiscAssignResult(ok)
          /\ lastCall' = Call("discovery", "assign_ip", ips' # ips, disc.dev, None, None)
    /\ disc' = [disc EXCEPT !.pc = "write"]
    /\ UNCHANGED <<lifecycle, stamps, comments, primary_ip4, ifaces, enforceUnique,
                   errLog, queueVars, prov, cb, hard, nLease, nCb>>
    /\ UNCHANGED dhcpVars

\* Step 3: the state the discovery worker writes.
DiscTargetState(current) == STATE_PLANNED

DiscWrite ==
    /\ disc.pc = "write"
    /\ \E ok \in BOOLEAN :
          IF ok
          THEN /\ lifecycle' = [lifecycle EXCEPT ![disc.dev] = DiscTargetState(@)]
               /\ stamps' = [stamps EXCEPT ![disc.dev] = @ \cup {NETBOX_FIELD_DISCOVERED_AT}]
               /\ disc' = [disc EXCEPT !.pc = "publish"]
               /\ lastCall' = Call("discovery", "write_state", TRUE, disc.dev,
                                   lifecycle[disc.dev], lifecycle'[disc.dev])
          ELSE /\ UNCHANGED <<lifecycle, stamps>>
               /\ disc' = Idle
               /\ lastCall' = Call("discovery", "write_state", FALSE, disc.dev, None, None)
    /\ UNCHANGED <<comments, primary_ip4, ifaces, ips, enforceUnique,
                   errLog, queueVars, prov, cb, hard, nLease, nCb>>
    /\ UNCHANGED dhcpVars

\* Step 4: publish device_discovered.
DiscPublish ==
    /\ disc.pc = "publish"
    /\ \E ok \in BOOLEAN :
          /\ qDisc' = IF ok THEN Append(qDisc, [dev |-> disc.dev, ip |-> disc.ip]) ELSE qDisc
          /\ lastCall' = Call("discovery", "publish", ok, disc.dev, None, None)
    /\ disc' = Idle
    /\ UNCHANGED <<invVars, errLog, qLease, qPxe, qVal, qHard, prov, cb, hard, nLease, nCb>>
    /\ UNCHANGED dhcpVars

----------------------------------------------------------------------------
\* services/provisioning_worker.py

\* PowerState as the controller reports it: a string, or null (the empty value here).
NullPower == <<>>
PowerStates ==
    {<<"O", "n">>, <<"O", "f", "f">>, <<"O", "F", "F">>, <<"U", "n", "k", "n", "o", "w", "n">>,
     NullPower}

ProvConsume ==
    /\ prov.pc = "idle"
    /\ qDisc # <<>>
    /\ prov' = [pc |-> "sysinfo", dev |-> Head(qDisc).dev, ip |-> Head(qDisc).ip,
                power |-> NullPower, done |-> {}]
    /\ qDisc' = Tail(qDisc)
    /\ lastCall' = Call("provisioning", "consume", TRUE, 0, None, None)
    /\ UNCHANGED <<invVars, errLog, qLease, qPxe, qVal, qHard, disc, cb, hard, nLease, nCb>>
    /\ UNCHANGED dhcpVars

\* Step 1: connect and read the system info; failure -> return.
ProvSysInfo ==
    /\ prov.pc = "sysinfo"
    /\ \E ok \in BOOLEAN :
          /\ prov' = IF ok THEN [prov EXCEPT !.pc = "power"] ELSE Idle
          /\ lastCall' = Call("provisioning", "get_system_info", ok, prov.dev, None, None)
    /\ UNCHANGED <<invVars, errLog, queueVars, disc, cb, hard, nLease, nCb>>
    /\ UNCHANGED dhcpVars

\* Step 2: read the power state; an exception ends the event in the outer handler.
ProvPowerState ==
    /\ prov.pc = "power"
    /\ \E ok \in BOOLEAN, ps \in PowerStates :
          /\ prov' = IF ok THEN [prov EXCEPT !.pc = "pxe", !.power = ps] ELSE Idle
          /\ lastCall' = Call("provisioning", "get_power_state", ok, prov.dev, None, None)
    /\ UNCHANGED <<invVars, errLog, queueVars, disc, cb, hard, nLease, nCb>>
    /\ UNCHANGED dhcpVars

\* Step 3: one-time PXE boot override; failure -> return.
ProvPxe ==
    /\ prov.pc = "pxe"
    /\ \E ok \in BOOLEAN :
          /\ prov' = IF ok THEN [prov EXCEPT !.pc = "poweract", !.done = @ \cup {"pxe"}]
                     ELSE Idle
          /\ lastCall' = Call("provisioning", "set_one_time_pxe_boot", ok, prov.dev, None, None)
    /\ UNCHANGED <<invVars, errLog, queueVars, disc, cb, hard, nLease, nCb>>
    /\ UNCHANGED dhcpVars

\* A comparison that takes the letters' case into account.
IsOff_exact(ps) == ps = <<"O", "f", "f">>

\* power_state.lower() == 'off'
IsOff(ps) == lower(ps) = <<"o", "f", "f">>

PowerAction(ps) == IF IsOff(ps) THEN "power_on" ELSE "force_restart"

\* Where the worker goes after the power action of step 4.
\* A worker that goes on to the state write whatever the power action answered.
ProvAfterPowerAction_ignoring(ok) == "write"

ProvAfterPowerAction(ok) == IF ok THEN "write" ELSE "idle"

\* Step 4: power on or force a restart; failure -> return. A power state that is
\* no string raises before any request is made.
ProvPowerAct ==
    /\ prov.pc = "poweract"
    /\ IF prov.power = NullPower
       THEN /\ prov' = Idle
            /\ lastCall' = Call("provisioning", "power_state_lower", FALSE, prov.dev, None, None)
       ELSE \E ok \in BOOLEAN :
               /\ prov' = IF ProvAfterPowerAction(ok) = "idle" THEN Idle
                          ELSE [prov EXCEPT !.pc = ProvAfterPowerAction(ok),
                                            !.power = NullPower,
                                            !.done = @ \cup (IF ok THEN {"power"} ELSE {})]
               /\ lastCall' = Call("provisioning", PowerAction(prov.power), ok, prov.dev, None, None)
    /\ UNCHANGED <<invVars, errLog, queueVars, disc, cb, hard, nLease, nCb>>
    /\ UNCHANGED dhcpVars

\* Step 5: lifecycle_state and pxe_boot_initiated_at in one update.
ProvWrite ==
    /\ prov.pc = "write"
    /\ \E ok \in BOOLEAN :
          IF ok
          THEN /\ lifecycle' = [lifecycle EXCEPT ![prov.dev] = STATE_VALIDATING]
               /\ stamps' = [stamps EXCEPT ![prov.dev] =
                                @ \cup {NETBOX_FIELD_PXE_BOOT_INITIATED_AT}]
               /\ prov' = [prov EXCEPT !.pc = "publish", !.done = @ \cup {"written"}]
               /\ lastCall' = Call("provisioning", "write_state", TRUE, prov.dev,
                                   lifecycle[prov.dev], STATE_VALIDATING)
          ELSE /\ UNCHANGED <<lifecycle, stamps>>
               /\ prov' = Idle
               /\ lastCall' = Call("provisioning", "write_state", FALSE, prov.dev, None, None)
    /\ UNCHANGED <<comments, primary_ip4, ifaces, ips, enforceUnique,
                   errLog, queueVars, disc, cb, hard, nLease, nCb>>
    /\ UNCHANGED dhcpVars

\* Step 6: publish pxe_boot_initiated.
ProvPublish ==
    /\ prov.pc = "publish"
    /\ \E ok \in BOOLEAN :
          /\ qPxe' = IF ok THEN Append(qPxe, [dev |-> prov.dev, ip |-> prov.ip]) ELSE qPxe
          /\ lastCall' = Call("provisioning", "publish", ok, prov.dev, None, None)
    /\ prov' = Idle
    /\ UNCHANGED <<invVars, errLog, qLease, qDisc, qVal, qHard, disc, cb, hard, nLease, nCb>>
    /\ UNCHANGED dhcpVars

----------------------------------------------------------------------------
\* services/callback_api.py: POST /api/v1/validation/report

Eth0 == <<"e", "t", "h", "0">>
ILO == <<"i", "L", "O">>

\* The interface lists a booted server reports.
InterfaceReports ==
    { <<>>,
      <<[name |-> ILO, mac |-> BmcMac], [name |-> <<>>, mac |-> OtherMac],
        [name |-> Eth0, mac |-> OtherMac]>> }

\* device_id of the payload: absent, a known device, an unknown device.
ReportedDeviceIds == {0} \cup Devices \cup {UnknownDeviceId}

\* A test that takes the letters' case into account.
IsBmcName_cased(name) ==
    Contains(<<"i", "l", "o">>, name) \/ Contains(<<"b", "m", "c">>, name)

\* The out-of-band interface is skipped by name.
IsBmcName(name) ==
    Contains(<<"i", "l", "o">>, lower(name)) \/ Contains(<<"b", "m", "c">>, lower(name))

\* The request arrives; a payload without device_id is answered 400 at once.
CbRequestOf(ids, models, reports) ==
    /\ cb.pc = "idle"
    /\ nCb < MaxCallbacks
    /\ nCb' = nCb + 1
    /\ \E id \in ids, model \in models, report \in reports :
          /\ cb' = IF id = 0 THEN CbIdle(400)
                ELSE [pc |-> "get", device_id |-> id, model |-> model,
                      todo |-> report, found |-> 0, resp |-> 0]
          /\ lastCall' = Call("callback", "request", TRUE, id, None, None)
    /\ UNCHANGED <<invVars, errLog, queueVars, disc, prov, hard, nLease>>
    /\ UNCHANGED dhcpVars

CbRequest == CbRequestOf(ReportedDeviceIds, BOOLEAN, InterfaceReports)

\* In the whole pipeline: the booted server reports itself, with no interfaces.
CbServerRequest == CbRequestOf(Devices, {FALSE}, {<<>>})

\* GET dcim/devices/<id>/ answers 404 for an id the inventory does not hold.
\* An inventory that answers every device id.
DeviceResolves_always(id) == TRUE

DeviceResolves(id) == id \in Devices

\* Step 1: get the device; any exception is answered 404.
CbGet ==
    /\ cb.pc = "get"
    /\ \E ok \in BOOLEAN :
          /\ cb' = IF ok /\ DeviceResolves(cb.device_id)
                   THEN [cb EXCEPT !.pc = IF cb.model THEN "comments" ELSE "ifaces"]
                   ELSE CbIdle(404)
          /\ lastCall' = Call("callback", "get_device", ok, cb.device_id, None, None)
    /\ UNCHANGED <<invVars, errLog, queueVars, disc, prov, hard, nLease, nCb>>
    /\ UNCHANGED dhcpVars

\* Step 2: record the hardware model in the device comments.
CbComments ==
    /\ cb.pc = "comments"
    /\ \E ok \in BOOLEAN :
          /\ comments' = IF ok THEN [comments EXCEPT ![cb.device_id] = TRUE] ELSE comments
          /\ cb' = IF ok THEN [cb EXCEPT !.pc = "ifaces"] ELSE CbIdle(500)
          /\ lastCall' = Call("callback", "write_comments", ok, cb.device_id, None, None)
    /\ UNCHANGED <<lifecycle, stamps, primary_ip4, ifaces, ips, enforceUnique,
                   errLog, queueVars, disc, prov, hard, nLease, nCb>>
    /\ UNCHANGED dhcpVars

\* Step 3, per reported interface: skip it, or look up (device, name).
CbIfaceNext ==
    /\ cb.pc = "ifaces"
    /\ IF cb.todo = <<>>
       THEN /\ cb' = [cb EXCEPT !.pc = "write"]
            /\ lastCall' = NoCall
       ELSE LET iface == Head(cb.todo) IN
            IF iface.name = <<>> \/ iface.mac = <<>> \/ IsBmcName(iface.name)
            THEN /\ cb' = [cb EXCEPT !.todo = Tail(@)]
                 /\ lastCall' = NoCall
            ELSE \E ok \in BOOLEAN :
                    LET existing == {i \in ifaces : i.device = cb.device_id
                                                    /\ i.name = iface.name}
                        first == IF existing = {} THEN 0
                                 ELSE (CHOOSE i \in existing :
                                          \A j \in existing : i.id <= j.id).id
                    IN  /\ cb' = IF ok THEN [cb EXCEPT !.pc = "upsert", !.found = first]
                                 ELSE [cb EXCEPT !.todo = Tail(@)]
                        /\ lastCall' = Call("callback", "find_interface", ok,
                                            cb.device_id, None, None)
    /\ UNCHANGED <<invVars, errLog, queueVars, disc, prov, hard, nLease, nCb>>
    /\ UNCHANGED dhcpVars

\* An inventory that accepts a second interface of the same name.
PostInterfaceRejected_never(dev, name) == FALSE

\* The inventory keeps (device, name) unique among interfaces.
PostInterfaceRejected(dev, name) ==
    \E i \in ifaces : i.device = dev /\ i.name = name

\* An upsert that always POSTs, against an inventory that accepts the duplicate.
create_or_update_interface_always_post(found, device_id, iface) ==
    ifaces \cup {[id |-> Cardinality(ifaces) + 1, device |-> device_id,
                  name |-> iface.name, mac |-> iface.mac]}

\* create_or_update_interface: PATCH the record found, or POST a new one.
create_or_update_interface(found, device_id, iface) ==
    IF found # 0
    THEN {IF i.id = found
          THEN [i EXCEPT !.device = device_id, !.name = iface.name, !.mac = iface.mac]
          ELSE i : i \in ifaces}
    ELSE IF PostInterfaceRejected(device_id, iface.name) THEN ifaces
    ELSE ifaces \cup {[id |-> Cardinality(ifaces) + 1, device |-> device_id,
                       name |-> iface.name, mac |-> iface.mac]}

\* Step 3, the write: a failure is logged and the loop goes on.
CbIfaceUpsert ==
    /\ cb.pc = "upsert"
    /\ LET iface == Head(cb.todo) IN
       \E ok \in BOOLEAN :
          /\ ifaces' = IF ok THEN create_or_update_interface(cb.found, cb.device_id, iface)
                       ELSE ifaces
          /\ lastCall' = Call("callback", "write_interface", ok, cb.device_id, None, None)
    /\ cb' = [cb EXCEPT !.pc = "ifaces", !.todo = Tail(@), !.found = 0]
    /\ UNCHANGED <<lifecycle, stamps, comments, primary_ip4, ips, enforceUnique,
                   errLog, queueVars, disc, prov, hard, nLease, nCb>>
    /\ UNCHANGED dhcpVars

\* The server runs each request in a thread of its own: the thread that was
\* waiting gets the processor, the running one waits.
CbSwitch ==
    /\ cb # cbWaiting
    /\ cb' = cbWaiting
    /\ cbWaiting' = cb
    /\ lastCall' = NoCall
    /\ UNCHANGED <<invVars, errLog, queueVars, disc, prov, hard, nLease, nCb>>
    /\ UNCHANGED <<feed, monVars, libVars, bootVars, replay, tailVars, status, journal,
                   qNetboxLeases, qBmcDiscovered, lw, bw>>

\* Step 5: set the device state to validated.
CbWrite ==
    /\ cb.pc = "write"
    /\ \E ok \in BOOLEAN :
          IF ok
          THEN /\ lifecycle' = [lifecycle EXCEPT ![cb.device_id] = STATE_VALIDATED]
               /\ cb' = [cb EXCEPT !.pc = "publish"]
               /\ lastCall' = Call("callback", "write_state", TRUE, cb.device_id,
                                   lifecycle[cb.device_id], STATE_VALIDATED)
          ELSE /\ UNCHANGED lifecycle
               /\ cb' = CbIdle(500)
               /\ lastCall' = Call("callback", "write_state", FALSE, cb.device_id, None, None)
    /\ UNCHANGED <<stamps, comments, primary_ip4, ifaces, ips, enforceUnique,
                   errLog, queueVars, disc, prov, hard, nLease, nCb>>
    /\ UNCHANGED dhcpVars

\* Step 6: publish validation_completed, then answer 200.
CbPublish ==
    /\ cb.pc = "publish"
    /\ \E ok \in BOOLEAN :
          /\ qVal' = IF ok THEN Append(qVal, [dev |-> cb.device_id]) ELSE qVal
          /\ lastCall' = Call("callback", "publish", ok, cb.device_id, None, None)
    /\ cb' = CbIdle(200)
    /\ UNCHANGED <<invVars, errLog, qLease, qDisc, qPxe, qHard, disc, prov, hard, nLease, nCb>>
    /\ UNCHANGED dhcpVars

----------------------------------------------------------------------------
\* services/hardening_worker.py

HardConsume ==
    /\ hard.pc = "idle"
    /\ qVal # <<>>
    /\ hard' = [pc |-> "get", dev |-> Head(qVal).dev, done |-> {}]
    /\ qVal' = Tail(qVal)
    /\ lastCall' = Call("hardening", "consume", TRUE, 0, None, None)
    /\ UNCHANGED <<invVars, errLog, qLease, qDisc, qPxe, qHard, disc, prov, cb, nLease, nCb>>
    /\ UNCHANGED dhcpVars

\* Step 1: get the device; it needs an out-of-band interface and a primary IP.
HardGet ==
    /\ hard.pc = "get"
    /\ \E ok \in BOOLEAN :
          LET bmc == {i \in ifaces : i.device = hard.dev /\ IsBmcName(i.name)} IN
          /\ hard' = IF ok /\ bmc # {} /\ primary_ip4[hard.dev]
                     THEN [hard EXCEPT !.pc = "set_hardening"]
                     ELSE Idle
          /\ lastCall' = Call("hardening", "get_device", ok, hard.dev, None, None)
    /\ UNCHANGED <<invVars, errLog, queueVars, disc, prov, cb, nLease, nCb>>
    /\ UNCHANGED dhcpVars

\* run_ansible_playbook: what the invocation can end in; "timeout" is the run
\* that hangs.
RunnerOutcomes == {"success", "nonzero", "timeout", "no_playbook", "no_executable", "exception"}

\* Step 2: set the device state to hardening.  What becomes of the run that
\* follows is the runner's and the target's matter: it is fixed here.
HardSetHardening ==
    /\ hard.pc = "set_hardening"
    /\ \E ok \in BOOLEAN, run \in RunnerOutcomes :
          IF ok
          THEN /\ lifecycle' = [lifecycle EXCEPT ![hard.dev] = STATE_HARDENING]
               /\ hard' = [pc |-> "run", dev |-> hard.dev,
                           done |-> hard.done \cup {"hardening"}, run |-> run]
               /\ lastCall' = Call("hardening", "write_state", TRUE, hard.dev,
                                   lifecycle[hard.dev], STATE_HARDENING)
          ELSE /\ UNCHANGED lifecycle
               /\ hard' = Idle
               /\ lastCall' = Call("hardening", "write_state", FALSE, hard.dev, None, None)
    /\ UNCHANGED <<stamps, comments, primary_ip4, ifaces, ips, enforceUnique,
                   errLog, queueVars, disc, prov, cb, nLease, nCb>>
    /\ UNCHANGED dhcpVars

\* An invocation without a timeout: a run that hangs never returns.
RunReturns_without_timeout(outcome) == outcome # "timeout"

\* subprocess.run(..., timeout=600): a run that hangs is killed after 600 s and
\* TimeoutExpired is raised, so the call returns for every run.
RunReturns(outcome) == TRUE

\* True only for a return code of 0.
\* A runner wrapper that reports a timeout as success.
run_ansible_playbook_timeout_ok(outcome) == outcome \in {"success", "timeout"}

run_ansible_playbook(outcome) == outcome = "success"

\* A worker that goes on to STAGED whatever the runner returned.
HardAfterRun_ignoring(success) == "set_staged"

\* Where the worker goes after the runner returned.
HardAfterRun(success) == IF success THEN "set_staged" ELSE "idle"

\* Step 3: run the playbook; failure -> return.
HardRun ==
    /\ hard.pc = "run"
    /\ RunReturns(hard.run)
    /\ \E outcome \in {hard.run} :
          LET success == run_ansible_playbook(outcome) IN
          /\ hard' = IF HardAfterRun(success) = "idle" THEN Idle
                     ELSE [hard EXCEPT !.pc = HardAfterRun(success),
                                       !.done = @ \cup (IF outcome = "success"
                                                        THEN {"run_ok"} ELSE {})]
          /\ lastCall' = CallResult("hardening", "run_playbook", success, hard.dev, outcome)
    /\ UNCHANGED <<invVars, errLog, queueVars, disc, prov, cb, nLease, nCb>>
    /\ UNCHANGED dhcpVars

\* Step 4: lifecycle_state staged and hardened_at in one update.
HardSetStaged ==
    /\ hard.pc = "set_staged"
    /\ \E ok \in BOOLEAN :
          IF ok
          THEN /\ lifecycle' = [lifecycle EXCEPT ![hard.dev] = STATE_STAGED]
               /\ stamps' = [stamps EXCEPT ![hard.dev] = @ \cup {NETBOX_FIELD_HARDENED_AT}]
               /\ hard' = [hard EXCEPT !.pc = "publish", !.done = @ \cup {"staged"}]
               /\ lastCall' = Call("hardening", "write_state", TRUE, hard.dev,
                                   lifecycle[hard.dev], STATE_STAGED)
          ELSE /\ UNCHANGED <<lifecycle, stamps>>
               /\ hard' = Idle
               /\ lastCall' = Call("hardening", "write_state", FALSE, hard.dev, None, None)
    /\ UNCHANGED <<comments, primary_ip4, ifaces, ips, enforceUnique,
                   errLog, queueVars, disc, prov, cb, nLease, nCb>>
    /\ UNCHANGED dhcpVars

\* Step 5: publish hardening_completed.
HardPublish ==
    /\ hard.pc = "publish"
    /\ \E ok \in BOOLEAN :
          /\ qHard' = IF ok THEN Append(qHard, [dev |-> hard.dev]) ELSE qHard
          /\ lastCall' = Call("hardening", "publish", ok, hard.dev, None, None)
    /\ hard' = Idle
    /\ UNCHANGED <<invVars, errLog, qLease, qDisc, qPxe, qVal, disc, prov, cb, nLease, nCb>>
    /\ UNCHANGED dhcpVars

----------------------------------------------------------------------------
\* dhcp-integration/dhcp-lease-worker.py: runs inside the inventory service and
\* reads and writes its database through the ORM.

\* The lease events pushed to netbox:dhcp:leases.
NetworkTypes == {"bmc", "management", "unknown"}
DhcpLeaseEvents ==
    {[network_type |-> "bmc", mac_address |-> lower(replace(BmcMac, ":", "-")),
      ip_address |-> "10.23.0.50"],
     [network_type |-> "bmc", mac_address |-> BmcMac, ip_address |-> "10.23.0.51"],
     [network_type |-> "bmc", mac_address |-> OtherMac, ip_address |-> "10.23.0.50"],
     [network_type |-> "management", mac_address |-> MgmtMac, ip_address |-> "10.23.0.51"],
     [network_type |-> "unknown", mac_address |-> BmcMac, ip_address |-> "10.23.0.50"]}

\* lpush by the producers, brpop by the workers.
lpush(q, e) == <<e>> \o q
brpop_item(q) == q[Len(q)]
brpop_rest(q) == SubSeq(q, 1, Len(q) - 1)

\* A journal entry is written, or the failure to write it is swallowed.
JournalAfter(dev, kind) ==
    {journal, [journal EXCEPT ![dev] = @ \cup {kind}]}

\* Events that lack a field process_dhcp_lease reads.
MalformedLeaseEvents ==
    {[network_type |-> "bmc", ip_address |-> "10.23.0.50"],
     [network_type |-> "management", mac_address |-> MgmtMac],
     [mac_address |-> BmcMac, ip_address |-> "10.23.0.50"]}

PushDhcpLeaseOf(events) ==
    /\ feed = NETBOX_DHCP_LEASES
    /\ nLease < MaxLeases
    /\ \E event \in events : qNetboxLeases' = lpush(qNetboxLeases, event)
    /\ nLease' = nLease + 1
    /\ lastCall' = NoCall
    /\ UNCHANGED <<sideVars, invVars, errLog, queueVars, workerVars, status, journal,
                   qBmcDiscovered, lw, bw, nCb>>

PushDhcpLease == PushDhcpLeaseOf(DhcpLeaseEvents)

PushAnyDhcpLease == PushDhcpLeaseOf(DhcpLeaseEvents \cup MalformedLeaseEvents)

\* A mapping that takes every other network type for the BMC network.
LeaseInterfaceName_default_bmc(network_type) ==
    IF network_type = "management" THEN Mgmt0Name ELSE BmcName

\* network_type -> the interface name searched for; None for any other type.
LeaseInterfaceName(network_type) ==
    CASE network_type = "bmc" -> BmcName
      [] network_type = "management" -> Mgmt0Name
      [] OTHER -> <<>>

\* event.get('network_type', 'unknown')
NetworkTypeOf(event) ==
    IF "network_type" \in DOMAIN event THEN event.network_type ELSE "unknown"

\* event['mac_address'] and event['ip_address'] raise KeyError when missing.
RaisesKeyError(event) == ~({"mac_address", "ip_address"} \subseteq DOMAIN event)

\* brpop and the start of process_dhcp_lease: a missing field (KeyError) and an
\* unknown network type end the event with False; the loop goes on.
LwConsume ==
    /\ lw.pc = "idle"
    /\ qNetboxLeases # <<>>
    /\ LET event == brpop_item(qNetboxLeases) IN
          lw' = IF RaisesKeyError(event) THEN Idle
                ELSE IF LeaseInterfaceName(NetworkTypeOf(event)) = <<>> THEN Idle
                ELSE [pc |-> "find", network_type |-> NetworkTypeOf(event),
                      mac |-> event.mac_address, ip |-> event.ip_address]
    /\ qNetboxLeases' = brpop_rest(qNetboxLeases)
    /\ lastCall' = Call("lease_worker", "consume", TRUE, 0, None, None)
    /\ UNCHANGED <<sideVars, invVars, errLog, queueVars, workerVars, status, journal,
                   qBmcDiscovered, bw, nLease, nCb>>

\* Interface.objects.filter(mac_address=..., name=...): interfaces[0] or none.
find_device_by_mac(mac_address, interface_name) ==
    LET interfaces == {i \in ifaces : /\ i.mac = mac_normalized(mac_address)
                                      /\ i.name = interface_name}
    IN  IF interfaces = {} THEN NoInterface
        ELSE CHOOSE i \in interfaces : \A j \in interfaces : i.id <= j.id

\* The device row as loaded into memory.
DeviceRow(dev) ==
    [lifecycle |-> lifecycle[dev], stamps |-> stamps[dev], comments |-> comments[dev],
     primary_ip4 |-> primary_ip4[dev], status |-> status[dev]]

\* [1/3] find the device; then the discovery journal entry.
LwFind ==
    /\ lw.pc = "find"
    /\ \E ok \in BOOLEAN :
          LET interface == find_device_by_mac(lw.mac, LeaseInterfaceName(lw.network_type)) IN
          /\ lastCall' = Call("lease_worker", "find_device", ok, 0, None, None)
          /\ IF ~ok \/ interface = NoInterface
             THEN lw' = Idle /\ journal' = journal
             ELSE /\ lw' = [pc |-> "assign", network_type |-> lw.network_type,
                            ip |-> lw.ip, dev |-> interface.device,
                            iface |-> interface.id, row |-> DeviceRow(interface.device)]
                  /\ journal' \in JournalAfter(interface.device, "discovery")
    /\ UNCHANGED <<sideVars, invVars, errLog, queueVars, workerVars, status, qNetboxLeases,
                   qBmcDiscovered, bw, nLease, nCb>>

\* existing.first(): the lowest-numbered IP record of the interface.
FirstIpOn(ifaceId) == CHOOSE r \in IpsOn(ifaceId) : \A q \in IpsOn(ifaceId) : r.id <= q.id

\* The IP records after assign_ip_to_interface: the interface's first record is
\* updated in place; without one a record is created and then attached to the
\* interface (two writes, the second of which may fail).
AssignOutcomes == {"ok", "failed", "save_failed"}
LwAssignResult(ifaceId, address, outcome) ==
    IF IpsOn(ifaceId) # {}
    THEN IF outcome = "ok"
         THEN {IF r = FirstIpOn(ifaceId) THEN [r EXCEPT !.address = address] ELSE r : r \in ips}
         ELSE ips
    ELSE IF outcome = "failed" \/ Cardinality(ips) >= MaxIpRecords THEN ips
         ELSE PostIp(IF outcome = "ok" THEN ifaceId ELSE 0, address)

\* [2/3] assign the IP.
LwAssign ==
    /\ lw.pc = "assign"
    /\ \E outcome \in AssignOutcomes :
          LET done == outcome = "ok" /\ (IpsOn(lw.iface) # {} \/ Cardinality(ips) < MaxIpRecords)
          IN
          /\ ips' = LwAssignResult(lw.iface, WithMask(lw.ip), outcome)
          /\ lw' = IF done THEN [lw EXCEPT !.pc = "state"] ELSE Idle
          /\ IF IpsOn(lw.iface) # {}
             THEN IF done THEN journal' \in JournalAfter(lw.dev, "ip_update")
                  ELSE journal' = journal
             ELSE journal' \in JournalAfter(lw.dev, IF done THEN "ip" ELSE "error")
          /\ lastCall' = Call("lease_worker", "assign_ip", done, lw.dev, None, None)
    /\ UNCHANGED <<sideVars, lifecycle, stamps, comments, primary_ip4, ifaces, enforceUnique, errLog,
                   queueVars, workerVars, status, qNetboxLeases, qBmcDiscovered, bw,
                   nLease, nCb>>

\* A [3/3] that moves every device a management lease is seen for.
LeaseTargetState_any_state(network_type, current_state) ==
    IF network_type = "bmc" THEN "discovered" ELSE "provisioning"

\* The state [3/3] moves the device to; the device's own state when it stays.
LeaseTargetState(network_type, current_state) ==
    IF network_type = "bmc" THEN "discovered"
    ELSE IF current_state \in {STATE_OFFLINE, "discovered"} THEN "provisioning"
    ELSE current_state

\* [3/3] update_device_state: device.save() writes the row as loaded by [1/3].
LwUpdateState ==
    /\ lw.pc = "state"
    /\ LET new_state == LeaseTargetState(lw.network_type, lw.row.lifecycle) IN
       IF lw.row.lifecycle = new_state
       THEN /\ lastCall' = Call("lease_worker", "keep_state", TRUE, lw.dev, None, None)
            /\ UNCHANGED <<lifecycle, stamps, comments, primary_ip4, status, journal>>
       ELSE \E ok \in BOOLEAN :
            /\ lastCall' = Call("lease_worker", "write_state", ok, lw.dev,
                                lifecycle[lw.dev], new_state)
            /\ IF ok
               THEN /\ lifecycle' = [lifecycle EXCEPT ![lw.dev] = new_state]
                    /\ stamps' = [stamps EXCEPT ![lw.dev] = lw.row.stamps]
                    /\ comments' = [comments EXCEPT ![lw.dev] = lw.row.comments]
                    /\ primary_ip4' = [primary_ip4 EXCEPT ![lw.dev] = lw.row.primary_ip4]
                    /\ status' = [status EXCEPT ![lw.dev] = lw.row.status]
                    /\ journal' \in JournalAfter(lw.dev, "state")
               ELSE UNCHANGED <<lifecycle, stamps, comments, primary_ip4, status, journal>>
    /\ lw' = Idle
    /\ UNCHANGED <<sideVars, ifaces, ips, enforceUnique, errLog, queueVars, workerVars,
                   qNetboxLeases, qBmcDiscovered, bw, nLease, nCb>>

----------------------------------------------------------------------------
\* dhcp-integration/netbox-bmc-worker.py: talks to the inventory's REST API.

BmcEvents ==
    {[mac_address |-> lower(replace(BmcMac, ":", "-")), ip_address |-> "10.23.0.50"],
     [mac_address |-> BmcMac, ip_address |-> "10.23.0.51"],
     [mac_address |-> OtherMac, ip_address |-> "10.23.0.50"]}

PushBmcEvent ==
    /\ feed = REDIS_QUEUE
    /\ nLease < MaxLeases
    /\ \E event \in BmcEvents : qBmcDiscovered' = lpush(qBmcDiscovered, event)
    /\ nLease' = nLease + 1
    /\ lastCall' = NoCall
    /\ UNCHANGED <<sideVars, invVars, errLog, queueVars, workerVars, status, journal,
                   qNetboxLeases, lw, bw, nCb>>

BwConsume ==
    /\ bw.pc = "idle"
    /\ qBmcDiscovered # <<>>
    /\ LET event == brpop_item(qBmcDiscovered) IN
          bw' = [pc |-> "find", mac |-> event.mac_address, ip |-> event.ip_address]
    /\ qBmcDiscovered' = brpop_rest(qBmcDiscovered)
    /\ lastCall' = Call("bmc_worker", "consume", TRUE, 0, None, None)
    /\ UNCHANGED <<sideVars, invVars, errLog, queueVars, workerVars, status, journal,
                   qNetboxLeases, lw, nLease, nCb>>

\* A loop that leaves `while self.running` on a Redis error.
AfterRedisError_stop == "stopped"

\* run(): `except redis.RedisError` logs the error and sleeps 5 seconds.
AfterRedisError == "sleep"

\* The brpop raises redis.RedisError: the queue server cannot be reached.
BwRedisError ==
    /\ feed = REDIS_QUEUE
    /\ bw.pc = "idle"
    /\ bw' = [pc |-> AfterRedisError]
    /\ lastCall' = Call("bmc_worker", "consume", FALSE, 0, None, None)
    /\ UNCHANGED <<sideVars, invVars, errLog, queueVars, workerVars, status, journal,
                   qNetboxLeases, qBmcDiscovered, lw, nLease, nCb>>

\* time.sleep(5) is over: the loop tries the brpop again.
BwWake ==
    /\ bw.pc = "sleep"
    /\ bw' = Idle
    /\ lastCall' = NoCall
    /\ UNCHANGED <<sideVars, invVars, errLog, queueVars, workerVars, status, journal,
                   qNetboxLeases, qBmcDiscovered, lw, nLease, nCb>>

\* GET dcim/interfaces/?mac_address=...&name=bmc: results[0] or none.
find_device_by_bmc_mac(mac_address) == find_device_by_mac(mac_address, BmcName)

\* A branch that treats a live device as one that is offline.
BwBranch_active_as_offline(current_state) ==
    IF current_state \in {"active", "offline"} THEN "status" ELSE "assign"

\* The step that follows the discovery journal entry, by the device's status.
BwBranch(current_state) ==
    CASE current_state = "active" -> "refresh"
      [] current_state = "offline" -> "status"
      [] OTHER -> "assign"

\* Find the device, read its status, write the discovery journal entry (and the
\* warning entry for a status that is none of active, offline, discovered).
BwFind ==
    /\ bw.pc = "find"
    /\ \E ok \in BOOLEAN :
          LET bmc_interface == find_device_by_bmc_mac(bw.mac) IN
          /\ lastCall' = Call("bmc_worker", "find_device", ok, 0, None, None)
          /\ IF ~ok \/ bmc_interface = NoInterface
             THEN bw' = Idle /\ journal' = journal
             ELSE LET dev == bmc_interface.device
                      current_state == status[dev]
                  IN  /\ bw' = [pc |-> BwBranch(current_state), ip |-> bw.ip, dev |-> dev,
                                iface |-> bmc_interface.id]
                      /\ \E j1 \in JournalAfter(dev, "discovery") :
                            journal' \in
                               IF current_state \in {"active", "offline", "discovered"}
                               THEN {j1}
                               ELSE {j1, [j1 EXCEPT ![dev] = @ \cup {"warning"}]}
    /\ UNCHANGED <<sideVars, invVars, errLog, queueVars, workerVars, status, qNetboxLeases,
                   qBmcDiscovered, lw, nLease, nCb>>

\* update_bmc_ip for a live device: PATCH the interface's first IP record, or
\* create one when it has none.
BwRefreshResult(ifaceId, address, ok) ==
    IF ~ok THEN ips
    ELSE IF IpsOn(ifaceId) = {}
    THEN IF PostIpRejected(address) \/ Cardinality(ips) >= MaxIpRecords THEN ips
         ELSE PostIp(ifaceId, address)
    ELSE IF enforceUnique /\ \E r \in ips \ {FirstIpOn(ifaceId)} : r.address = address
    THEN ips
    ELSE {IF r = FirstIpOn(ifaceId) THEN [r EXCEPT !.address = address] ELSE r : r \in ips}

BwRefresh ==
    /\ bw.pc = "refresh"
    /\ \E ok \in BOOLEAN :
          /\ ips' = BwRefreshResult(bw.iface, WithMask(bw.ip), ok)
          /\ lastCall' = Call("bmc_worker", "update_bmc_ip", ok, bw.dev, None, None)
          /\ IF ok /\ \E r \in ips' : r.iface = bw.iface /\ r.address = WithMask(bw.ip)
             THEN journal' \in JournalAfter(bw.dev, "ip")
             ELSE journal' = journal
    /\ bw' = Idle
    /\ UNCHANGED <<sideVars, lifecycle, stamps, comments, primary_ip4, ifaces, enforceUnique, errLog,
                   queueVars, workerVars, status, qNetboxLeases, qBmcDiscovered, lw,
                   nLease, nCb>>

\* offline -> discovered: PATCH the device's status.
BwUpdateStatus ==
    /\ bw.pc = "status"
    /\ \E ok \in BOOLEAN :
          /\ lastCall' = Call("bmc_worker", "write_status", ok, bw.dev, status[bw.dev],
                              "discovered")
          /\ IF ok
             THEN /\ status' = [status EXCEPT ![bw.dev] = "discovered"]
                  /\ journal' \in JournalAfter(bw.dev, "state")
                  /\ bw' = [bw EXCEPT !.pc = "assign"]
             ELSE /\ UNCHANGED <<status, journal>>
                  /\ bw' = Idle
    /\ UNCHANGED <<sideVars, invVars, errLog, queueVars, workerVars, qNetboxLeases, qBmcDiscovered,
                   lw, nLease, nCb>>

\* POST ipam/ip-addresses/: a 400 is skipped, any other failure ends the event.
BwAssignResult(ifaceId, address, ok) ==
    IF ok /\ ~PostIpRejected(address) /\ Cardinality(ips) < MaxIpRecords
    THEN PostIp(ifaceId, address)
    ELSE ips

BwAssign ==
    /\ bw.pc = "assign"
    /\ \E ok \in BOOLEAN :
          /\ ips' = BwAssignResult(bw.iface, WithMask(bw.ip), ok)
          /\ lastCall' = Call("bmc_worker", "assign_ip", ips' # ips, bw.dev, None, None)
          /\ IF ips' # ips THEN journal' \in JournalAfter(bw.dev, "ip")
             ELSE journal' = journal
    /\ bw' = Idle
    /\ UNCHANGED <<sideVars, lifecycle, stamps, comments, primary_ip4, ifaces, enforceUnique, errLog,
                   queueVars, workerVars, status, qNetboxLeases, qBmcDiscovered, lw,
                   nLease, nCb>>

----------------------------------------------------------------------------
\* services/monitoring_worker.py: a timer loop over the devices in 'ready'.

\* The fleet the monitoring worker polls.
Fleet == {1, 2, 3}

\* What the monitoring worker leaves alone.
exceptMon ==
    <<comments, primary_ip4, ifaces, ips, enforceUnique, errLog, queueVars, workerVars,
      deployVars, status, journal, qNetboxLeases, qBmcDiscovered, lw, bw, nLease, nCb,
      libVars, bootVars, replay, tailVars, names>>

\* The names the fleet's devices carry: the inventory requires a name to be
\* unique within a site only.
DeviceNames == {"srv-a", "srv-b"}

\* The ids in `devs`, in the order the inventory lists them (ascending id).
RECURSIVE ListOf(_)
ListOf(devs) ==
    IF devs = {} THEN <<>>
    ELSE LET d == CHOOSE x \in devs : \A y \in devs : x <= y
         IN  <<d>> \o ListOf(devs \ {d})

\* GET dcim/devices/?cf_lifecycle_state=<state>: the devices with their fields.
get_devices_by_state(state) ==
    LET devs == {d \in DOMAIN lifecycle : lifecycle[d] = state}
    IN  [k \in 1..Cardinality(devs) |->
            [id |-> ListOf(devs)[k], name |-> names[ListOf(devs)[k]],
             primary_ip4 |-> primary_ip4[ListOf(devs)[k]]]]

\* Time passes between two steps of the worker.
MonTick ==
    /\ now < MaxSeconds
    /\ now' = now + 1
    /\ lastCall' = NoCall
    /\ UNCHANGED <<lifecycle, stamps, mon, metricsDocs, nCycle, metricsFiles, exceptMon>>

\* A loop that ends when a poll cycle raised.
AfterLoopError_exit == [pc |-> "exited"]

\* except Exception in monitoring_loop: log, time.sleep(60), next cycle.
AfterLoopError == Idle

\* A poll cycle starts: list the ready devices; a failure is logged and the loop
\* sleeps before the next cycle.
MonQuery ==
    /\ mon.pc = "idle"
    /\ nCycle < MaxCycles
    /\ nCycle' = nCycle + 1
    /\ \E ok \in BOOLEAN :
          /\ mon' = IF ok
                    THEN [pc |-> "collect", devices |-> get_devices_by_state(STATE_READY),
                          k |-> 1, attempted |-> {}]
                    ELSE AfterLoopError
          /\ now' = IF ok THEN now ELSE now + 1
          /\ lastCall' = Call("monitoring", "get_devices_by_state", ok, 0, None, None)
    /\ UNCHANGED <<lifecycle, stamps, metricsDocs, metricsFiles, exceptMon>>

\* A loop that gives up the cycle at the first device that fails.
MonNextDevice_aborting(m) == Idle

\* Where the loop over the devices stands once device number k is done with.
MonNextDevice(m) ==
    [pc |-> "collect", devices |-> m.devices, k |-> m.k + 1, attempted |-> m.attempted]

\* for device in devices: collect_metrics is entered; a device without address
\* is skipped.  After the last device the loop sleeps until the next cycle.
MonCollect ==
    /\ mon.pc = "collect"
    /\ IF mon.k > Len(mon.devices)
       THEN /\ mon' = Idle
            /\ now' = now + 1
            /\ lastCall' = Call("monitoring", "sleep", TRUE, 0, None, None)
       ELSE LET device == mon.devices[mon.k]
                entered == [mon EXCEPT !.attempted = @ \cup {device.id}]
            IN  IF ~device.primary_ip4
                THEN /\ mon' = MonNextDevice(entered)
                     /\ now' = now
                     /\ lastCall' = CallResult("monitoring", "collect", FALSE, device.id,
                                               "no_address")
                ELSE /\ mon' = [entered EXCEPT !.pc = "metrics"]
                     /\ now' = now
                     /\ lastCall' = Call("monitoring", "collect", TRUE, device.id, None, None)
    /\ UNCHANGED <<lifecycle, stamps, metricsDocs, nCycle, metricsFiles, exceptMon>>

\* ilo.get_all_metrics(): any failure (unreachable, authentication) ends this device.
ControllerFailures == {"unreachable", "auth_failure"}
MonMetrics ==
    /\ mon.pc = "metrics"
    /\ \E result \in {"ok"} \cup ControllerFailures :
          /\ mon' = IF result = "ok" THEN [mon EXCEPT !.pc = "save"] ELSE MonNextDevice(mon)
          /\ lastCall' = CallResult("monitoring", "get_all_metrics", result = "ok",
                                    mon.devices[mon.k].id, result)
    /\ UNCHANGED <<lifecycle, stamps, metricsDocs, nCycle, now, metricsFiles, exceptMon>>

\* f"{device_name}-{utcnow:%Y%m%d-%H%M%S}.json": the name and the second.
filename(device_name, second) == <<device_name, second>>

\* A file name that also carries the device's id.
filename_with_id(device, second) == <<device.name, second, device.id>>

\* The file name collect_metrics builds for `device` at `second`.
filename_of(device, second) == filename(device.name, second)

\* open(filepath, 'w') and json.dump: the file is created, or truncated and
\* rewritten when it exists.
WriteFile(fs, file, doc) ==
    [g \in DOMAIN fs \cup {file} |-> IF g = file THEN doc ELSE fs[g]]

\* The metrics document is written to its file.
MonSave ==
    /\ mon.pc = "save"
    /\ \E ok \in BOOLEAN :
          /\ metricsDocs' = IF ok THEN metricsDocs \cup {[dev |-> mon.devices[mon.k].id,
                                                         cycle |-> nCycle]}
                            ELSE metricsDocs
          /\ metricsFiles' =
                IF ok THEN WriteFile(metricsFiles, filename_of(mon.devices[mon.k], now),
                                     [dev |-> mon.devices[mon.k].id, cycle |-> nCycle])
                ELSE metricsFiles
          /\ mon' = IF ok THEN [mon EXCEPT !.pc = "annotate"] ELSE MonNextDevice(mon)
          /\ lastCall' = CallResult("monitoring", "save_metrics", ok, mon.devices[mon.k].id,
                                    IF ok THEN "ok" ELSE "write_error")
    /\ UNCHANGED <<lifecycle, stamps, nCycle, now, exceptMon>>

\* An annotation that also sets the lifecycle state.
AnnotationFields_with_state ==
    {<<NETBOX_FIELD_LAST_MONITORED_AT, "timestamp">>,
     <<NETBOX_FIELD_LAST_POWER_WATTS, "consumed_watts">>,
     <<NETBOX_FIELD_LIFECYCLE_STATE, STATE_MONITORED>>}

\* The custom_fields of the PATCH collect_metrics sends, as <<key, value>> pairs.
AnnotationFields ==
    {<<NETBOX_FIELD_LAST_MONITORED_AT, "timestamp">>,
     <<NETBOX_FIELD_LAST_POWER_WATTS, "consumed_watts">>}

\* PATCH dcim/devices/<id>/: the custom fields named in the body are set, the
\* others keep their values.
PatchedState(current, fields) ==
    IF \E f \in fields : f[1] = NETBOX_FIELD_LIFECYCLE_STATE
    THEN (CHOOSE f \in fields : f[1] = NETBOX_FIELD_LIFECYCLE_STATE)[2]
    ELSE current

PatchedStamps(current, fields) ==
    current \cup ({f[1] : f \in fields} \ {NETBOX_FIELD_LIFECYCLE_STATE})

\* last_monitored_at and last_power_watts are written; a failure is only logged.
MonAnnotate ==
    /\ mon.pc = "annotate"
    /\ \E ok \in BOOLEAN :
          LET dev == mon.devices[mon.k].id IN
          /\ stamps' = IF ok THEN [stamps EXCEPT ![dev] = PatchedStamps(@, AnnotationFields)]
                       ELSE stamps
          /\ lifecycle' = IF ok
                          THEN [lifecycle EXCEPT ![dev] = PatchedState(@, AnnotationFields)]
                          ELSE lifecycle
          /\ lastCall' = CallResult("monitoring", "annotate", ok, dev,
                                    IF ok THEN "ok" ELSE "write_error")
    /\ mon' = MonNextDevice(mon)
    /\ UNCHANGED <<metricsDocs, nCycle, now, metricsFiles, exceptMon>>

----------------------------------------------------------------------------
\* lib/queue.py: Queue over Redis lists.  A message is a dictionary, here a set of
\* <<key, value>> pairs whose keys and values carry their Python type.

StrVal(v) == [t |-> "str", v |-> v]
IntVal(v) == [t |-> "int", v |-> v]

\* The events the stages publish.
Messages ==
    {{<<StrVal("event_type"), StrVal("dhcp_lease")>>, <<StrVal("ip"), StrVal("10.23.0.50")>>},
     {<<StrVal("event_type"), StrVal("device_discovered")>>, <<StrVal("device_id"), IntVal("1")>>}}

\* json.dumps: every key becomes a string; values keep their JSON type.
json_dumps(message) == [json |-> {<<p[1].v, p[2]>> : p \in message}]

\* json.loads: the keys of an object are strings.
json_loads(message_json) == {<<StrVal(p[1]), p[2]>> : p \in message_json.json}

\* JSON values other than strings and integers.
DictVal(items) == [t |-> "dict", v |-> items]
ListVal == [t |-> "list", v |-> "[]"]
NoneVal == [t |-> "none", v |-> "None"]

\* dict.get(key, default)
get(d, key, default) ==
    IF \E p \in d.v : p[1] = StrVal(key)
    THEN (CHOOSE p \in d.v : p[1] = StrVal(key))[2]
    ELSE default

exceptLib ==
    <<invVars, errLog, queueVars, workerVars, deployVars, status, journal, qNetboxLeases,
      qBmcDiscovered, lw, bw, nLease, nCb, monVars, lastCall, bootVars, replay, tailVars>>

QResult(op, queue, ok, msg, len) ==
    [op |-> op, queue |-> queue, ok |-> ok, msg |-> msg, len |-> len]

\* publish: rpush of the JSON text; False when the request fails.
QPublish ==
    /\ nOps < MaxQueueOps
    /\ nOps' = nOps + 1
    /\ \E queue_name \in QueueNames, message \in Messages, ok \in BOOLEAN :
          /\ redisLists' = IF ok THEN [redisLists EXCEPT ![queue_name] =
                                          Append(@, json_dumps(message))]
                           ELSE redisLists
          /\ accepted' = IF ok THEN [accepted EXCEPT ![queue_name] = Append(@, message)]
                         ELSE accepted
          /\ qResult' = QResult("publish", queue_name, ok, message, 0)
    /\ UNCHANGED <<returned, exceptLib>>

\* An rpop in place of the blpop.
blpop_right(list) == [item |-> list[Len(list)], rest |-> SubSeq(list, 1, Len(list) - 1)]

\* blpop: the leftmost element of the list is removed and returned.
blpop(list) == [item |-> Head(list), rest |-> Tail(list)]

\* consume: blpop with a timeout; None on timeout and when the request fails.
QConsume ==
    /\ nOps < MaxQueueOps
    /\ nOps' = nOps + 1
    /\ \E queue_name \in QueueNames, ok \in BOOLEAN :
          LET list == redisLists[queue_name] IN
          IF ok /\ list # <<>>
          THEN LET message_json == blpop(list).item IN
               /\ redisLists' = [redisLists EXCEPT ![queue_name] = blpop(list).rest]
               /\ returned' = [returned EXCEPT ![queue_name] =
                                  Append(@, json_loads(message_json))]
               /\ qResult' = QResult("consume", queue_name, TRUE, json_loads(message_json), 0)
          ELSE /\ UNCHANGED <<redisLists, returned>>
               /\ qResult' = QResult("consume", queue_name, ok, NoMessage, 0)
    /\ UNCHANGED <<accepted, exceptLib>>

\* An lindex -1 in place of the lindex 0.
lindex_last(list) == list[Len(list)]

\* lindex 0: the leftmost element of the list, which stays where it is.
lindex(list) == Head(list)

\* peek: None for an empty list and when the request fails.
QPeek ==
    /\ nOps < MaxQueueOps
    /\ nOps' = nOps + 1
    /\ \E queue_name \in QueueNames, ok \in BOOLEAN :
          LET list == redisLists[queue_name] IN
          qResult' = IF ok /\ list # <<>>
                     THEN QResult("peek", queue_name, TRUE, json_loads(lindex(list)), 0)
                     ELSE QResult("peek", queue_name, ok, NoMessage, 0)
    /\ UNCHANGED <<redisLists, accepted, returned, exceptLib>>

\* length: llen; 0 when the request fails.
QLength ==
    /\ nOps < MaxQueueOps
    /\ nOps' = nOps + 1
    /\ \E queue_name \in QueueNames, ok \in BOOLEAN :
          qResult' = QResult("length", queue_name, ok, NoMessage,
                             IF ok THEN Len(redisLists[queue_name]) ELSE 0)
    /\ UNCHANGED <<redisLists, accepted, returned, exceptLib>>

----------------------------------------------------------------------------
\* main() of a stage worker: validate the configuration, build the Queue, test
\* the connection, then consume and process for ever.
\* services/discovery_worker.py 148-198, services/provisioning_worker.py 141-195.

StageNames == {"discovery", "provisioning"}

\* The queue a stage consumes.
StageQueue(stage) ==
    IF stage = "discovery" THEN QUEUE_DHCP_LEASE ELSE QUEUE_DEVICE_DISCOVERED

\* os.getenv of a required secret: unset, set to the empty string, or set.
SecretChoices == {None, "", "secret"}

\* Python's `not value` for None and strings.
Falsy(value) == value = None \/ value = ""

\* A validation that forgets the controller password.
validate_config_token_only(e) ==
    IF Falsy(e.NETBOX_TOKEN) THEN {"NETBOX_TOKEN environment variable is required"} ELSE {}

\* config.validate_config: the errors it collects; it raises when there are any.
validate_config(e) ==
    (IF Falsy(e.NETBOX_TOKEN) THEN {"NETBOX_TOKEN environment variable is required"} ELSE {})
    \cup (IF Falsy(e.ILO_DEFAULT_PASSWORD)
          THEN {"ILO_DEFAULT_PASSWORD environment variable is required"} ELSE {})

exceptMain ==
    <<invVars, errLog, queueVars, workerVars, deployVars, status, journal, qNetboxLeases,
      qBmcDiscovered, lw, bw, nLease, nCb, monVars, lastCall, replay, tailVars>>

Exited(code) == [main EXCEPT !.pc = "exited", !.code = code]

\* The service manager starts the process.
MainStart ==
    /\ main.pc \in {"down", "exited", "killed"}
    /\ main' = [stage |-> main.stage, pc |-> "validate", code |-> 0, ping |-> None,
                event |-> NoMessage]
    /\ UNCHANGED <<env, completed, libVars, exceptMain>>

\* config.validate_config(); ValueError -> sys.exit(1).
MainValidate ==
    /\ main.pc = "validate"
    /\ main' = IF validate_config(env) # {} THEN Exited(1) ELSE [main EXCEPT !.pc = "ping"]
    /\ UNCHANGED <<env, completed, libVars, exceptMain>>

\* What client.ping() can end in.
PingOutcomes == {"PONG", "AuthenticationError", "ConnectionError", "SSLError", "Exception"}

\* Queue.ping: True when the server answers, False on any exception.
ping(outcome) == outcome = "PONG"

\* Queue(...) and the connection test.  discovery_worker calls ping_verbose,
\* which exits 1 on every exception; the others exit 1 when ping() is False.
MainPing ==
    /\ main.pc = "ping"
    /\ \E outcome \in PingOutcomes :
          main' = IF ping(outcome) THEN [main EXCEPT !.pc = "loop", !.ping = outcome]
                  ELSE [Exited(1) EXCEPT !.ping = outcome]
    /\ UNCHANGED <<env, completed, libVars, exceptMain>>

\* event = queue.consume(queue, timeout=5); `if event:` goes on to process it.
MainConsume ==
    /\ main.pc = "loop"
    /\ \E ok \in BOOLEAN :
          LET queue_name == StageQueue(main.stage)
              list == redisLists[queue_name] IN
          IF ok /\ list # <<>>
          THEN LET event == json_loads(blpop(list).item) IN
               /\ redisLists' = [redisLists EXCEPT ![queue_name] = blpop(list).rest]
               /\ returned' = [returned EXCEPT ![queue_name] = Append(@, event)]
               /\ qResult' = QResult("consume", queue_name, TRUE, event, 0)
               /\ main' = IF event # NoMessage
                          THEN [main EXCEPT !.pc = "process", !.event = event]
                          ELSE main
          ELSE /\ UNCHANGED <<redisLists, returned, main>>
               /\ qResult' = QResult("consume", queue_name, ok, NoMessage, 0)
    /\ UNCHANGED <<accepted, nOps, env, completed, exceptMain>>

\* The first lines of process_dhcp_event / process_device_discovered, before
\* their try: data = event.get('data', {}); data.get(...).  A data field that is
\* not a dictionary has no get: AttributeError.
HandlerRaises(event) == get(DictVal(event), "data", DictVal({})).t # "dict"

\* Where main() is after the handler: the handler catches every exception of
\* its steps inside the try and returns; an exception of its first lines
\* reaches main's `except Exception`, which logs it and calls sys.exit(1).
AfterHandler(event) == IF HandlerRaises(event) THEN "exited" ELSE "loop"

MainProcess ==
    /\ main.pc = "process"
    /\ IF AfterHandler(main.event) = "exited"
       THEN /\ main' = [Exited(1) EXCEPT !.event = NoMessage]
            /\ UNCHANGED completed
       ELSE /\ completed' = Append(completed, main.event)
            /\ main' = [main EXCEPT !.pc = "loop", !.event = NoMessage]
    /\ UNCHANGED <<env, libVars, exceptMain>>

\* An event whose data field is a string.
BadDataMessage ==
    {<<StrVal("event_type"), StrVal("dhcp_lease")>>, <<StrVal("data"), StrVal("10.23.0.50")>>}

\* Another producer pushes such an event onto the stage's queue.
PushRaw ==
    /\ nOps < MaxQueueOps
    /\ nOps' = nOps + 1
    /\ LET queue_name == StageQueue(main.stage) IN
       /\ redisLists' = [redisLists EXCEPT ![queue_name] =
                            Append(@, json_dumps(BadDataMessage))]
       /\ accepted' = [accepted EXCEPT ![queue_name] = Append(@, BadDataMessage)]
       /\ qResult' = QResult("publish", queue_name, TRUE, BadDataMessage, 0)
    /\ UNCHANGED <<returned, exceptLib>>

\* The process is killed while it holds a dequeued event (SIGKILL, power loss).
MainKilled ==
    /\ main.pc = "process"
    /\ main' = [main EXCEPT !.pc = "killed", !.event = NoMessage]
    /\ UNCHANGED <<env, completed, libVars, exceptMain>>

----------------------------------------------------------------------------
\* At-least-once delivery: the queue hands a stage the same event twice.  The
\* provisioning worker consumes Discovery Events, the hardening worker
\* Validation-Completed Events.

ReplayStages == {"provisioning", "hardening"}

\* The event of device 1 on the stage's queue.
StageEvent(stage) ==
    IF stage = "provisioning" THEN [dev |-> 1, ip |-> "10.23.0.50"] ELSE [dev |-> 1]

\* The stage's worker waits on an empty queue.
StageAtRest(stage) ==
    IF stage = "provisioning" THEN prov.pc = "idle" /\ qDisc = <<>>
    ELSE hard.pc = "idle" /\ qVal = <<>>

\* The stage published its own event downstream: its whole handler succeeded.
StageSucceeded(stage) ==
    IF stage = "provisioning" THEN qPxe # <<>> ELSE qHard # <<>>

exceptDelivery ==
    <<invVars, errLog, qLease, qPxe, qHard, workerVars, nLease, nCb, deployVars, monVars,
      libVars, bootVars, tailVars, status, journal, qNetboxLeases, qBmcDiscovered, lw, bw>>

EnqueueFor(stage) ==
    IF stage = "provisioning"
    THEN qDisc' = Append(qDisc, StageEvent(stage)) /\ UNCHANGED qVal
    ELSE qVal' = Append(qVal, StageEvent(stage)) /\ UNCHANGED qDisc

\* The event is delivered.
Deliver ==
    /\ replay = NoReplay
    /\ \E stage \in ReplayStages :
          /\ EnqueueFor(stage)
          /\ replay' = [stage |-> stage, phase |-> "first", state |-> None, done |-> FALSE]
    /\ lastCall' = NoCall
    /\ UNCHANGED exceptDelivery

\* The first processing is over; the exact same event is delivered again.
Redeliver ==
    /\ replay.stage \in ReplayStages
    /\ replay.phase = "first"
    /\ StageAtRest(replay.stage)
    /\ EnqueueFor(replay.stage)
    /\ replay' = [replay EXCEPT !.phase = "replayed", !.state = lifecycle[1],
                                !.done = StageSucceeded(replay.stage)]
    /\ lastCall' = NoCall
    /\ UNCHANGED exceptDelivery

----------------------------------------------------------------------------
\* services/dhcp_tailer.py: follow the DHCP event log and publish its lines.

JSONDecodeError == [t |-> "JSONDecodeError", v |-> "Expecting value"]

\* Lines the DHCP side appends to the log, without their newline.
ValidLine == "{\"event_type\": \"dhcp_lease\", \"data\": {\"ip\": \"10.23.0.50\", \"mac\": \"aa:bb:cc:dd:ee:01\"}}"
PaddedLine == "  {\"event_type\": \"dhcp_lease\", \"data\": {\"ip\": \"10.23.0.50\", \"mac\": \"aa:bb:cc:dd:ee:01\"}} "
NoMacLine == "{\"event_type\": \"dhcp_lease\", \"data\": {\"ip\": \"10.23.0.50\"}}"
EmptyIpLine == "{\"event_type\": \"dhcp_lease\", \"data\": {\"ip\": \"\", \"mac\": \"aa:bb:cc:dd:ee:01\"}}"
TextLine == "DHCPACK on 10.23.0.50 to aa:bb:cc:dd:ee:01"
ListLine == "[]"
\* A line holding the bytes FF FE, which are not UTF-8.
BytesLine == "\\xff\\xfe"
LogLines == {ValidLine, PaddedLine, NoMacLine, EmptyIpLine, TextLine, ListLine, BytesLine}

\* The encodings open(path, 'r') can have, from the locale.
Encodings == {"utf-8", "latin-1"}
UnicodeDecodeError == "UnicodeDecodeError"

\* f.readline(): the text of the line's bytes; UTF-8 rejects FF FE, Latin-1
\* gives the two letters y-diaeresis and thorn.
readline(bytes, encoding) ==
    IF bytes = BytesLine
    THEN IF encoding = "utf-8" THEN UnicodeDecodeError ELSE "\\u00ff\\u00fe"
    ELSE bytes

\* str.strip()
strip(line) == IF line = PaddedLine THEN ValidLine ELSE line

LeaseData(ip, mac) ==
    DictVal({<<StrVal("ip"), StrVal(ip)>>} \cup
            (IF mac = None THEN {} ELSE {<<StrVal("mac"), StrVal(mac)>>}))

LeaseOf(data) ==
    DictVal({<<StrVal("event_type"), StrVal("dhcp_lease")>>, <<StrVal("data"), data>>})

\* json.loads of a stripped line.
loads(line) ==
    CASE line = ValidLine -> LeaseOf(LeaseData("10.23.0.50", "aa:bb:cc:dd:ee:01"))
      [] line = NoMacLine -> LeaseOf(LeaseData("10.23.0.50", None))
      [] line = EmptyIpLine -> LeaseOf(LeaseData("", "aa:bb:cc:dd:ee:01"))
      [] line = ListLine -> ListVal
      [] OTHER -> JSONDecodeError

\* Python's `not value` for a JSON value.
Not(value) == value.t = "none" \/ (value.t = "str" /\ value.v = "")

\* process_dhcp_event up to its publish: what the line leads to.
\* .get on a value that is not a dictionary raises AttributeError.
process_dhcp_event(line) ==
    LET event == loads(line) IN
    IF event.t = "JSONDecodeError" THEN "invalid_json"
    ELSE IF event.t # "dict" THEN "exception"
    ELSE LET data == get(event, "data", DictVal({})) IN
         IF data.t # "dict" THEN "exception"
         ELSE IF Not(get(data, "ip", NoneVal)) \/ Not(get(data, "mac", NoneVal))
              THEN "missing"
              ELSE "publish"

exceptTail ==
    <<invVars, errLog, queueVars, workerVars, deployVars, status, journal, qNetboxLeases,
      qBmcDiscovered, lw, bw, nLease, nCb, monVars, lastCall, bootVars, replay>>

LinesWritten == Len(files[1]) + Len(files[2])

\* The DHCP side appends a line to the file the log path names.
LogWrite ==
    /\ LinesWritten < MaxLines
    /\ \E bytes \in LogLines :
          /\ files' = [files EXCEPT ![pathFile] = Append(@, bytes)]
          /\ written' = IF tailer.pc = "tailing" THEN Append(written, bytes) ELSE written
    /\ UNCHANGED <<pathFile, tailer, seen, logErrors, libVars, exceptTail>>

\* Log rotation: the file is renamed and a new empty file takes the path.
LogRotate ==
    /\ pathFile = 1
    /\ pathFile' = 2
    /\ UNCHANGED <<files, tailer, seen, logErrors, written, libVars, exceptTail>>

\* main: the connection test, then tail_file opens the path and seeks to its end.
TailStart ==
    /\ tailer.pc = "down"
    /\ \E outcome \in PingOutcomes :
          tailer' = IF ping(outcome)
                    THEN [tailer EXCEPT !.pc = "tailing", !.f = pathFile,
                                        !.pos = Len(files[pathFile])]
                    ELSE [tailer EXCEPT !.pc = "exited", !.code = 1]
    /\ UNCHANGED <<files, pathFile, seen, logErrors, written, libVars, exceptTail>>

\* One turn of the loop of tail_file that finds a line: readline, then the
\* callback process_dhcp_event with its publish.  A UnicodeDecodeError leaves
\* tail_file; main logs it and exits 1.
TailRead ==
    /\ tailer.pc = "tailing"
    /\ tailer.pos < Len(files[tailer.f])
    /\ LET line == readline(files[tailer.f][tailer.pos + 1], tailer.encoding) IN
       IF line = UnicodeDecodeError
       THEN /\ tailer' = [tailer EXCEPT !.pc = "exited", !.code = 1]
            /\ logErrors' = logErrors + 1
            /\ UNCHANGED <<seen, libVars>>
       ELSE /\ tailer' = [tailer EXCEPT !.pos = @ + 1]
            /\ seen' = Append(seen, strip(line))
            /\ IF process_dhcp_event(strip(line)) = "publish"
               THEN \E ok \in BOOLEAN :
                      LET event == loads(strip(line)).v IN
                      /\ redisLists' = IF ok THEN [redisLists EXCEPT ![QUEUE_DHCP_LEASE] =
                                                      Append(@, json_dumps(event))]
                                       ELSE redisLists
                      /\ accepted' = IF ok THEN [accepted EXCEPT ![QUEUE_DHCP_LEASE] =
                                                    Append(@, event)]
                                     ELSE accepted
                      /\ qResult' = QResult("publish", QUEUE_DHCP_LEASE, ok, event, 0)
                      /\ logErrors' = IF ok THEN logErrors ELSE logErrors + 1
                      /\ UNCHANGED <<returned, nOps>>
               ELSE /\ logErrors' = logErrors + 1
                    /\ UNCHANGED libVars
    /\ UNCHANGED <<files, pathFile, written, exceptTail>>

----------------------------------------------------------------------------
Next ==
    \/ PublishServerLease
    \/ DiscConsume
    \/ DiscFind
    \/ DiscAssign
    \/ DiscWrite
    \/ DiscPublish
    \/ ProvConsume
    \/ ProvSysInfo
    \/ ProvPowerState
    \/ ProvPxe
    \/ ProvPowerAct
    \/ ProvWrite
    \/ ProvPublish
    \/ CbServerRequest
    \/ CbGet
    \/ CbIfaceNext
    \/ CbWrite
    \/ CbPublish
    \/ HardConsume
    \/ HardGet
    \/ HardSetHardening
    \/ HardRun
    \/ HardSetStaged
    \/ HardPublish

Spec == Init /\ [][Next]_vars

\* Lease ingestion and the discovery worker alone.
NextDiscovery ==
    \/ PublishLease
    \/ DiscConsume
    \/ DiscFind
    \/ DiscAssign
    \/ DiscWrite
    \/ DiscPublish

SpecDiscovery == Init /\ [][NextDiscovery]_vars

\* The three workers that handle lease events, side by side.
InitLeaseHandling ==
    /\ InitPipeline
    /\ InitServices
    /\ lifecycle \in [Devices -> {STATE_OFFLINE, STATE_VALIDATING}]
    /\ primary_ip4 = [d \in Devices |-> FALSE]
    /\ feed \in {QUEUE_DHCP_LEASE, NETBOX_DHCP_LEASES, REDIS_QUEUE}
    /\ status \in [Devices -> StatusChoices]

NextLeaseHandling ==
    \/ NextDiscovery
    \/ PushDhcpLease
    \/ LwConsume
    \/ LwFind
    \/ LwAssign
    \/ LwUpdateState
    \/ PushBmcEvent
    \/ BwConsume
    \/ BwFind
    \/ BwRefresh
    \/ BwUpdateStatus
    \/ BwAssign

SpecLeaseHandling == InitLeaseHandling /\ [][NextLeaseHandling]_vars

\* The monitoring worker over a fleet of staged and ready servers.
InitMonitoring ==
    /\ lifecycle \in [Fleet -> {STATE_STAGED, STATE_READY}]
    /\ primary_ip4 \in [Fleet -> BOOLEAN]
    /\ stamps = [d \in Fleet |-> {}]
    /\ comments = [d \in Fleet |-> FALSE]
    /\ status = [d \in Fleet |-> "active"]
    /\ journal = [d \in Fleet |-> {}]
    /\ ifaces = {} /\ ips = {} /\ enforceUnique = TRUE /\ errLog = {}
    /\ qLease = <<>> /\ qDisc = <<>> /\ qPxe = <<>> /\ qVal = <<>> /\ qHard = <<>>
    /\ qNetboxLeases = <<>> /\ qBmcDiscovered = <<>>
    /\ disc = Idle /\ prov = Idle /\ cb = CbIdle(0) /\ cbWaiting = CbIdle(0) /\ hard = Idle /\ lw = Idle /\ bw = Idle
    /\ feed = QUEUE_DHCP_LEASE
    /\ nLease = 0 /\ nCb = 0
    /\ lastCall = NoCall
    /\ mon = Idle /\ metricsDocs = {} /\ nCycle = 0
    /\ now = 0 /\ metricsFiles = NoFiles
    /\ names \in [Fleet -> DeviceNames]
    /\ InitQueue
    /\ InitServices

NextMonitoring ==
    \/ MonTick
    \/ MonQuery
    \/ MonCollect
    \/ MonMetrics
    \/ MonSave
    \/ MonAnnotate

SpecMonitoring == InitMonitoring /\ [][NextMonitoring]_vars

\* The monitoring loop is one thread: a step that can be taken is taken.
FairMonitoring ==
    /\ WF_vars(MonQuery)
    /\ WF_vars(MonCollect)
    /\ WF_vars(MonMetrics)
    /\ WF_vars(MonSave)
    /\ WF_vars(MonAnnotate)

\* The same worker over a fleet whose names and addresses are fixed: the
\* second device has no address, the first and the third carry the same name.
InitRounds ==
    /\ InitMonitoring
    /\ primary_ip4 = [d \in Fleet |-> d # 2]
    /\ names = [d \in Fleet |-> IF d = 2 THEN "srv-b" ELSE "srv-a"]

SpecRounds == InitRounds /\ [][NextMonitoring]_vars

SpecRoundsFair == SpecRounds /\ FairMonitoring

\* The monitoring worker polls a ready server while a lease of that server's
\* controller goes through the discovery worker.
InitWatch ==
    /\ Init
    /\ lifecycle = [d \in Devices |-> STATE_READY]
    /\ primary_ip4 = [d \in Devices |-> TRUE]

NextWatch ==
    \/ PublishServerLease
    \/ DiscConsume
    \/ DiscFind
    \/ DiscAssign
    \/ DiscWrite
    \/ DiscPublish
    \/ MonTick
    \/ MonQuery
    \/ MonCollect
    \/ MonMetrics
    \/ MonSave
    \/ MonAnnotate

SpecWatch == InitWatch /\ [][NextWatch]_vars

\* The Queue library under calls of its four operations.
NextQueue ==
    \/ QPublish
    \/ QConsume
    \/ QPeek
    \/ QLength

\* One server in the rack, nothing discovered yet.
InitQuiet ==
    /\ InitPipeline
    /\ lifecycle = [d \in Devices |-> STATE_OFFLINE]
    /\ primary_ip4 = [d \in Devices |-> FALSE]
    /\ enforceUnique = TRUE
    /\ feed = QUEUE_DHCP_LEASE
    /\ status = [d \in Devices |-> "offline"]

InitLibrary == InitQuiet /\ InitServices

SpecQueue == InitLibrary /\ [][NextQueue]_vars

\* The whole pipeline for one server in the rack; each stage is a process of
\* its own that takes the step it can take.
InitFlow ==
    /\ Init
    /\ lifecycle = [d \in Devices |-> STATE_OFFLINE]
    /\ primary_ip4 = [d \in Devices |-> TRUE]
    /\ enforceUnique = TRUE

SpecFlow == InitFlow /\ [][Next]_vars

DiscStep == DiscConsume \/ DiscFind \/ DiscAssign \/ DiscWrite \/ DiscPublish
ProvStep ==
    ProvConsume \/ ProvSysInfo \/ ProvPowerState \/ ProvPxe \/ ProvPowerAct \/ ProvWrite
        \/ ProvPublish
CbStep == CbGet \/ CbIfaceNext \/ CbWrite \/ CbPublish
HardStep ==
    HardConsume \/ HardGet \/ HardSetHardening \/ HardRun \/ HardSetStaged \/ HardPublish

FairFlow ==
    /\ WF_vars(DiscStep)
    /\ WF_vars(ProvStep)
    /\ WF_vars(CbStep)
    /\ WF_vars(HardStep)

SpecFlowFair == SpecFlow /\ FairFlow

\* The discovery worker's process dies between the IP write and the publish of
\* an event, is started again, and the same lease is observed again.
InitCrash ==
    /\ Init
    /\ lifecycle = [d \in Devices |-> STATE_OFFLINE]
    /\ primary_ip4 = [d \in Devices |-> FALSE]

FirstLease == nLease = 0 /\ PublishServerLease

DiscCrashAndSameLease ==
    /\ disc.pc \in {"write", "publish"}
    /\ nLease < MaxLeases
    /\ disc' = Idle
    /\ qLease' = Append(qLease, [mac |-> disc.mac, ip |-> disc.ip])
    /\ nLease' = nLease + 1
    /\ lastCall' = NoCall
    /\ UNCHANGED <<invVars, errLog, qDisc, qPxe, qVal, qHard, prov, cb, hard, nCb>>
    /\ UNCHANGED dhcpVars

NextCrash ==
    \/ FirstLease
    \/ DiscCrashAndSameLease
    \/ DiscConsume
    \/ DiscFind
    \/ DiscAssign
    \/ DiscWrite
    \/ DiscPublish

SpecCrash == InitCrash /\ [][NextCrash]_vars

\* The lease worker alone, fed well-formed and malformed events.
InitBadLeases ==
    /\ InitLeaseHandling
    /\ feed = NETBOX_DHCP_LEASES
    /\ status = [d \in Devices |-> "offline"]
    /\ enforceUnique = TRUE

NextBadLeases ==
    \/ PushAnyDhcpLease
    \/ LwConsume
    \/ LwFind
    \/ LwAssign
    \/ LwUpdateState

SpecBadLeases == InitBadLeases /\ [][NextBadLeases]_vars

\* Two validation reports for the same device that name the same interface,
\* handled by two request threads.
SameNameReports ==
    {<<[name |-> Eth0, mac |-> OtherMac]>>, <<[name |-> Eth0, mac |-> MgmtMac]>>}

CbSameNameRequest == CbRequestOf(Devices, {FALSE}, SameNameReports)

InitTwoCallbacks ==
    /\ Init
    /\ lifecycle = [d \in Devices |-> STATE_VALIDATING]
    /\ primary_ip4 = [d \in Devices |-> TRUE]
    /\ enforceUnique = TRUE

NextTwoCallbacks ==
    \/ CbSameNameRequest
    \/ CbSwitch
    \/ CbGet
    \/ CbIfaceNext
    \/ CbIfaceUpsert
    \/ CbWrite
    \/ CbPublish

SpecTwoCallbacks == InitTwoCallbacks /\ [][NextTwoCallbacks]_vars

\* The five stages side by side, for one lease and one validation report, over
\* a device that is offline or was set to ready from outside the pipeline.
InitStages ==
    /\ Init
    /\ lifecycle \in [Devices -> {STATE_OFFLINE, STATE_READY}]
    /\ primary_ip4 = [d \in Devices |-> TRUE]
    /\ enforceUnique = TRUE

FirstCallback == nCb = 0 /\ CbServerRequest

NextStages ==
    \/ FirstLease
    \/ DiscStep
    \/ ProvStep
    \/ FirstCallback
    \/ CbStep
    \/ HardStep
    \/ MonQuery
    \/ MonCollect
    \/ MonMetrics
    \/ MonSave
    \/ MonAnnotate

SpecStages == InitStages /\ [][NextStages]_vars

\* The controller's lease as two DHCP sources spell its hardware address:
\* upper case with colons, lower case with dashes.
LeaseSpellings ==
    {[mac |-> BmcMac, ip |-> "10.23.0.50"],
     [mac |-> lower(replace(BmcMac, ":", "-")), ip |-> "10.23.0.50"]}

PublishSpelledLease == PublishLeaseOf(LeaseSpellings)

InitSpellings == InitCrash

NextSpellings ==
    \/ PublishSpelledLease
    \/ DiscConsume
    \/ DiscFind
    \/ DiscAssign
    \/ DiscWrite
    \/ DiscPublish

SpecSpellings == InitSpellings /\ [][NextSpellings]_vars

\* A stage process from its start, fed by publishers, under any environment.
InitMain ==
    /\ InitQuiet
    /\ InitReplay /\ InitTailer
    /\ main \in {[pc |-> "down", stage |-> stage] : stage \in StageNames}
    /\ env \in [NETBOX_TOKEN : SecretChoices, ILO_DEFAULT_PASSWORD : SecretChoices]
    /\ completed = <<>>

NextMain ==
    \/ QPublish
    \/ MainStart
    \/ MainValidate
    \/ MainPing
    \/ MainConsume
    \/ MainProcess
    \/ MainKilled

SpecMain == InitMain /\ [][NextMain]_vars

\* A stage process with a valid configuration whose queue also receives events
\* of other producers.
InitLoop ==
    /\ InitQuiet
    /\ InitReplay /\ InitTailer
    /\ main \in {[pc |-> "down", stage |-> stage] : stage \in StageNames}
    /\ env = [NETBOX_TOKEN |-> "secret", ILO_DEFAULT_PASSWORD |-> "secret"]
    /\ completed = <<>>

NextLoop ==
    \/ QPublish
    \/ PushRaw
    \/ MainStart
    \/ MainValidate
    \/ MainPing
    \/ MainConsume
    \/ MainProcess

SpecLoop == InitLoop /\ [][NextLoop]_vars

\* A running stage whose queue server comes and goes: the discovery worker on
\* bm:events:dhcp_lease, or the BMC discovery worker on netbox:bmc:discovered.
InitOutage ==
    /\ InitPipeline
    /\ lifecycle = [d \in Devices |-> STATE_OFFLINE]
    /\ primary_ip4 = [d \in Devices |-> FALSE]
    /\ enforceUnique = TRUE
    /\ feed \in {QUEUE_DHCP_LEASE, REDIS_QUEUE}
    /\ status \in [Devices -> StatusChoices]
    /\ InitReplay /\ InitTailer
    /\ main = [pc |-> "down", stage |-> "discovery"]
    /\ env = [NETBOX_TOKEN |-> "secret", ILO_DEFAULT_PASSWORD |-> "secret"]
    /\ completed = <<>>

OutagePublish == feed = QUEUE_DHCP_LEASE /\ QPublish
OutageStart == feed = QUEUE_DHCP_LEASE /\ MainStart

NextOutage ==
    \/ OutagePublish
    \/ OutageStart
    \/ MainValidate
    \/ MainPing
    \/ MainConsume
    \/ MainProcess
    \/ PushBmcEvent
    \/ BwRedisError
    \/ BwWake
    \/ BwConsume
    \/ BwFind
    \/ BwRefresh
    \/ BwUpdateStatus
    \/ BwAssign

SpecOutage == InitOutage /\ [][NextOutage]_vars

\* Both loops keep running, and the queue server answers again and again.
FairOutage ==
    /\ WF_vars(OutageStart) /\ WF_vars(MainValidate)
    /\ SF_vars(MainPing /\ main'.pc = "loop")
    /\ WF_vars(MainConsume /\ main'.pc = "process")
    /\ WF_vars(MainProcess)
    /\ WF_vars(BwWake) /\ SF_vars(BwConsume)
    /\ WF_vars(BwFind) /\ WF_vars(BwRefresh) /\ WF_vars(BwUpdateStatus) /\ WF_vars(BwAssign)

SpecOutageFair == SpecOutage /\ FairOutage

\* The process is scheduled, restarted by its service manager, and the queue
\* server answers again and again.
FairMain ==
    /\ WF_vars(MainStart) /\ WF_vars(MainValidate)
    /\ SF_vars(MainPing /\ main'.pc = "loop")
    /\ WF_vars(MainConsume /\ main'.pc = "process")
    /\ WF_vars(MainProcess)

SpecMainFair == SpecMain /\ FairMain

\* The provisioning and hardening workers under a redelivered event.
InitRedelivery ==
    /\ InitPipeline
    /\ InitServices
    /\ feed = QUEUE_DHCP_LEASE
    /\ status = [d \in Devices |-> "active"]

NextRedelivery ==
    \/ Deliver
    \/ Redeliver
    \/ ProvConsume
    \/ ProvSysInfo
    \/ ProvPowerState
    \/ ProvPxe
    \/ ProvPowerAct
    \/ ProvWrite
    \/ ProvPublish
    \/ HardConsume
    \/ HardGet
    \/ HardSetHardening
    \/ HardRun
    \/ HardSetStaged
    \/ HardPublish

SpecRedelivery == InitRedelivery /\ [][NextRedelivery]_vars

\* The tailer over a log that is written and rotated.
InitTailing ==
    /\ InitQuiet
    /\ InitBoot /\ InitReplay
    /\ files = <<<<>>, <<>>>> /\ pathFile = 1
    /\ tailer \in {[pc |-> "down", encoding |-> e, f |-> 0, pos |-> 0, code |-> 0] :
                       e \in Encodings}
    /\ seen = <<>> /\ logErrors = 0 /\ written = <<>>

NextTailing ==
    \/ LogWrite
    \/ LogRotate
    \/ TailStart
    \/ TailRead

SpecTailing == InitTailing /\ [][NextTailing]_vars

\* The tailer is started and polls the file every second.
SpecTailingFair == SpecTailing /\ WF_vars(TailStart) /\ WF_vars(TailRead)

\* Lease ingestion, discovery and provisioning.
NextProvisioning ==
    \/ NextDiscovery
    \/ ProvConsume
    \/ ProvSysInfo
    \/ ProvPowerState
    \/ ProvPxe
    \/ ProvPowerAct
    \/ ProvWrite
    \/ ProvPublish

SpecProvisioning == Init /\ [][NextProvisioning]_vars

\* The validation callback and the hardening worker.
NextValidation ==
    \/ CbRequest
    \/ CbGet
    \/ CbComments
    \/ CbIfaceNext
    \/ CbIfaceUpsert
    \/ CbWrite
    \/ CbPublish
    \/ HardConsume
    \/ HardGet
    \/ HardSetHardening
    \/ HardRun
    \/ HardSetStaged
    \/ HardPublish

SpecValidation == Init /\ [][NextValidation]_vars

\* The hardening worker is one thread whose calls all return: a step it can
\* take is taken.
SpecValidationFair == SpecValidation /\ WF_vars(HardStep)

----------------------------------------------------------------------------
\* Properties.

PipelineStages == {"discovery", "provisioning", "callback", "hardening"}

\* The order of the lifecycle states along the transition table.
state_rank(s) ==
    CASE s = STATE_OFFLINE -> 0
      [] s \in {STATE_PLANNED, "discovered"} -> 1
      [] s = STATE_VALIDATING -> 2
      [] s = STATE_VALIDATED -> 3
      [] s = STATE_HARDENING -> 4
      [] s = STATE_STAGED -> 5
      [] s = STATE_READY -> 6
      [] OTHER -> 7

\* The step just taken was a successful lifecycle_state write by a pipeline stage.
StageWrote(c) == c.by \in PipelineStages /\ c.op = "write_state" /\ c.ok

\* C1: every lifecycle_state write of a pipeline stage, other than a write of
\* ERROR, moves the device forward: state_rank(before) <= state_rank(after).
C1_WritesMoveForward ==
    [][(StageWrote(lastCall') /\ lastCall'.after # STATE_ERROR
            /\ lastCall'.before # STATE_ERROR)
        => state_rank(lastCall'.before) <= state_rank(lastCall'.after)]_vars

\* The 'From' states of the row of the transition table that leads to `after`.
FromStates(after) ==
    CASE after = STATE_VALIDATING -> {STATE_PLANNED, "discovered"}
      [] after = STATE_VALIDATED -> {STATE_VALIDATING}
      [] after = STATE_HARDENING -> {STATE_VALIDATED}
      [] after = STATE_STAGED -> {STATE_HARDENING}
      [] OTHER -> {STATE_OFFLINE}

\* C2: no stage skips states: Provisioning, the Validation Callback and Hardening
\* write a state only to a device that is in the 'From' state of that row.
C2_NoStageSkipsStates ==
    [][(StageWrote(lastCall') /\ lastCall'.by # "discovery")
        => lastCall'.before \in FromStates(lastCall'.after)]_vars

\* C3: a device in ERROR is left in ERROR by every step of a pipeline stage.
C3_ErrorIsNotLeft ==
    [][\A d \in Devices :
          (lifecycle[d] = STATE_ERROR /\ lastCall'.by \in PipelineStages)
          => lifecycle'[d] = STATE_ERROR]_vars

\* The hardware address matches no interface of the inventory.
Unresolvable(mac) == ~\E i \in ifaces : i.mac = mac_normalized(mac)

\* What a lease worker can write or publish to.
LeaseEffects ==
    <<invVars, status, journal, queueVars, qNetboxLeases, qBmcDiscovered>>

\* C4: when the lookup of a lease's hardware address finds no interface, the
\* worker handling the lease (discovery worker, lease worker or BMC worker) writes
\* nothing to the inventory (no IP record, no lifecycle_state or status, no stamp,
\* no journal entry), publishes nothing, and drops the event: it goes back to
\* waiting and the event is on no queue.
C4_UnresolvedLeaseWritesNothing ==
    [][/\ (disc.pc = "find" /\ lastCall'.by = "discovery" /\ Unresolvable(disc.mac))
            => (UNCHANGED LeaseEffects /\ disc' = Idle)
       /\ (lw.pc = "find" /\ lastCall'.by = "lease_worker" /\ Unresolvable(lw.mac))
            => (UNCHANGED LeaseEffects /\ lw' = Idle)
       /\ (bw.pc = "find" /\ lastCall'.by = "bmc_worker" /\ Unresolvable(bw.mac))
            => (UNCHANGED LeaseEffects /\ bw' = Idle)]_vars

\* The discovery worker looked up an unresolvable lease and dropped it.
C4_Witness ==
    /\ lastCall.by = "discovery" /\ lastCall.op = "find_interface" /\ lastCall.ok
    /\ OtherMac \in errLog
    /\ disc = Idle /\ qLease = <<>>

\* The lease worker and the BMC worker did the same.
C4_WitnessLeaseWorker ==
    /\ lastCall.by = "lease_worker" /\ lastCall.op = "find_device" /\ lastCall.ok
    /\ lw = Idle /\ nLease = 1 /\ qNetboxLeases = <<>>
    /\ journal = [d \in Devices |-> {}]

C4_WitnessBmcWorker ==
    /\ lastCall.by = "bmc_worker" /\ lastCall.op = "find_device" /\ lastCall.ok
    /\ bw = Idle /\ nLease = 1 /\ qBmcDiscovered = <<>>
    /\ journal = [d \in Devices |-> {}]

\* C5: however often a lease is processed, the interface it resolves to holds the
\* leased address in one IP record, never in two.
C5_ReplayedLeaseAssignsOnce ==
    \A i \in ifaces : \A ip \in IPs :
        Cardinality({r \in IpsOn(i.id) : r.address = WithMask(ip)}) <= 1

\* The interface holds the leased address with the /24 mask.
Holds(records, ifaceId, ip) ==
    \E r \in records : r.iface = ifaceId /\ r.address = WithMask(ip)

\* C6: when a worker completes a bmc lease for an OFFLINE device with every
\* request it made answered successfully, the device's lifecycle_state is the
\* discovered state and its bmc interface holds the leased address with a /24
\* mask.  (The discovery worker's name for the discovered state is 'planned'.)
C6_BmcLeaseDiscoversOfflineDevice ==
    [][/\ (disc.pc = "write" /\ lastCall'.by = "discovery" /\ lastCall'.ok
                /\ lifecycle[disc.dev] = STATE_OFFLINE)
            => (lifecycle'[disc.dev] \in {"discovered", STATE_PLANNED}
                /\ Holds(ips', disc.iface, disc.ip))
       /\ (lw.pc = "state" /\ lastCall'.by = "lease_worker" /\ lastCall'.ok
                /\ lw.network_type = "bmc" /\ lifecycle[lw.dev] = STATE_OFFLINE)
            => (lifecycle'[lw.dev] \in {"discovered", STATE_PLANNED}
                /\ Holds(ips', lw.iface, lw.ip))
       /\ (bw.pc = "assign" /\ lastCall'.by = "bmc_worker" /\ lastCall'.ok
                /\ lifecycle[bw.dev] = STATE_OFFLINE)
            => (lifecycle'[bw.dev] \in {"discovered", STATE_PLANNED}
                /\ Holds(ips', bw.iface, bw.ip))]_vars

ControllerCalls ==
    {"get_system_info", "get_power_state", "set_one_time_pxe_boot", "power_on",
     "force_restart"}

\* C7: a failed Management Controller call ends the event: lifecycle_state and
\* pxe_boot_initiated_at stay as they are and no boot-initiated event is published,
\* by that step or by any later step for the same event.
C7_ControllerFailureAborts ==
    [][(lastCall'.by = "provisioning" /\ lastCall'.op \in ControllerCalls /\ ~lastCall'.ok)
        => /\ UNCHANGED <<lifecycle, stamps, qPxe>>
           /\ prov' = Idle]_vars

\* The restart of a discovered device failed; it is still planned, without stamp.
C7_Witness ==
    /\ lastCall.by = "provisioning" /\ lastCall.op = "force_restart" /\ ~lastCall.ok
    /\ lifecycle[1] = STATE_PLANNED
    /\ NETBOX_FIELD_PXE_BOOT_INITIATED_AT \notin stamps[1]

\* C8: a Configuration Runner invocation that did not succeed ends the event:
\* the device's lifecycle_state (HARDENING) is not changed, hardened_at is not
\* stamped and no hardening_completed event is published.
C8_RunnerFailureStaysHardening ==
    [][(lastCall'.by = "hardening" /\ lastCall'.op = "run_playbook"
            /\ lastCall'.result # "success")
        => /\ UNCHANGED <<lifecycle, stamps, qHard>>
           /\ hard' = Idle]_vars

\* The runner timed out on a device that Hardening had set to HARDENING.
C8_Witness ==
    /\ lastCall.by = "hardening" /\ lastCall.op = "run_playbook"
    /\ lastCall.result = "timeout"
    /\ lifecycle[1] = STATE_HARDENING
    /\ NETBOX_FIELD_HARDENED_AT \notin stamps[1]
    /\ qHard = <<>>

\* C9: for one event, Hardening writes HARDENING before it invokes the runner,
\* writes STAGED with hardened_at only after the runner succeeded, and publishes
\* only after the STAGED write succeeded.
C9_HardeningOrder ==
    [][/\ (lastCall'.by = "hardening" /\ lastCall'.op = "run_playbook")
            => "hardening" \in hard.done
       /\ (lastCall'.by = "hardening" /\ lastCall'.op = "write_state"
                /\ lastCall'.ok /\ lastCall'.after = STATE_STAGED)
            => /\ "run_ok" \in hard.done
               /\ NETBOX_FIELD_HARDENED_AT \in stamps'[lastCall'.dev]
       /\ (\E d \in Devices : NETBOX_FIELD_HARDENED_AT \in stamps'[d] \ stamps[d])
            => (lastCall'.by = "hardening" /\ lastCall'.after = STATE_STAGED)
       /\ (qHard' # qHard)
            => (lastCall'.by = "hardening" /\ lastCall'.op = "publish"
                /\ "staged" \in hard.done)]_vars

\* A hardening_completed event was published for a staged, stamped device.
C9_Witness ==
    /\ lastCall.by = "hardening" /\ lastCall.op = "publish" /\ lastCall.ok
    /\ Len(qHard) = 1
    /\ lifecycle[1] = STATE_STAGED
    /\ NETBOX_FIELD_HARDENED_AT \in stamps[1]

\* C10: a callback without device_id is answered 400, one whose device_id does
\* not resolve is answered 404, and neither step writes to the inventory or
\* publishes; no other step of the handler answers 400 or 404.
C10_RejectedCallbackWritesNothing ==
    [][/\ (lastCall'.by = "callback" /\ lastCall'.op = "request" /\ lastCall'.dev = 0)
            => (cb' = CbIdle(400) /\ UNCHANGED <<invVars, queueVars>>)
       /\ (lastCall'.by = "callback" /\ lastCall'.op = "get_device"
                /\ lastCall'.dev \notin Devices)
            => (cb' = CbIdle(404) /\ UNCHANGED <<invVars, queueVars>>)
       /\ (cb'.resp \in {400, 404} /\ cb' # cb)
            => (lastCall'.op \in {"request", "get_device"}
                /\ UNCHANGED <<invVars, queueVars>>)]_vars

\* A callback for an unknown device was answered 404.
C10_Witness ==
    /\ cb = CbIdle(404)
    /\ lastCall.by = "callback" /\ lastCall.op = "get_device"
    /\ lastCall.dev = UnknownDeviceId

\* A callback without device_id was answered 400.
C10_WitnessMissing ==
    /\ cb = CbIdle(400)
    /\ lastCall.by = "callback" /\ lastCall.op = "request" /\ lastCall.dev = 0

C12_FailureDoesNotEndCycle ==
    [][/\ (lastCall'.by = "monitoring" /\ lastCall'.op # "get_devices_by_state"
                /\ ~lastCall'.ok)
            => (mon'.pc = "collect" /\ mon'.k = mon.k + 1
                /\ mon'.devices = mon.devices)
       /\ (lastCall'.by = "monitoring" /\ lastCall'.op = "sleep")
            => mon.attempted = {mon.devices[k].id : k \in 1..Len(mon.devices)}
       /\ (mon.pc = "collect" /\ mon.k <= Len(mon.devices))
            => (\A k \in 1..(mon.k - 1) : mon.devices[k].id \in mon.attempted)]_vars

\* Collection from the first of three ready devices failed (controller or file
\* write), and the third device's metrics were still saved in that cycle.
C12_Witness ==
    /\ lastCall.by = "monitoring" /\ lastCall.op = "save_metrics" /\ lastCall.ok
    /\ Len(mon.devices) = 3 /\ mon.k = 3
    /\ [dev |-> mon.devices[1].id, cycle |-> nCycle] \notin metricsDocs
    /\ [dev |-> mon.devices[3].id, cycle |-> nCycle] \in metricsDocs
    /\ primary_ip4[mon.devices[1].id]

\* s is a prefix of t.
IsPrefix(s, t) == Len(s) <= Len(t) /\ s = SubSeq(t, 1, Len(s))

NextConsumed(q) ==
    IF Len(returned[q]) < Len(accepted[q]) THEN accepted[q][Len(returned[q]) + 1]
    ELSE NoMessage

\* A Queue call that is a peek leaves every list as it was.
PeekChangesNothing ==
    [][qResult'.op = "peek" => UNCHANGED <<redisLists, accepted, returned>>]_vars

C15_AcceptedIsEventuallyProcessed ==
    \A i \in 1..MaxQueueOps :
        (/\ ~Falsy(env.NETBOX_TOKEN) /\ ~Falsy(env.ILO_DEFAULT_PASSWORD)
         /\ Len(accepted[StageQueue(main.stage)]) >= i)
            ~> (Len(completed) >= i)

\* The worker was killed holding the only accepted event: the queue is empty and
\* nothing was processed.
C15_Lost ==
    /\ main.pc = "killed"
    /\ Len(accepted[StageQueue(main.stage)]) = 1
    /\ redisLists[StageQueue(main.stage)] = <<>>
    /\ completed = <<>>

\* A required secret is unset or empty.
MissingSecret == Falsy(env.NETBOX_TOKEN) \/ Falsy(env.ILO_DEFAULT_PASSWORD)

C20_WitnessUnreachable ==
    /\ ~MissingSecret
    /\ main.pc = "exited" /\ main.code = 1 /\ main.ping = "ConnectionError"
    /\ redisLists[StageQueue(main.stage)] # <<>>
    /\ completed = <<>>

\* The replayed event has been processed too.
ReplayProcessed == replay.stage \in ReplayStages /\ replay.phase = "replayed"
                       /\ StageAtRest(replay.stage)

\* C16: once a stage has processed an event successfully, processing an exact
\* duplicate of it leaves lifecycle_state as the first processing left it,
\* whatever the external calls of the replay return.
C16_ReplayKeepsState ==
    (ReplayProcessed /\ replay.done) => lifecycle[1] = replay.state

\* The same, for the provisioning worker alone.
C16_ProvisioningReplayKeepsState ==
    (ReplayProcessed /\ replay.done /\ replay.stage = "provisioning")
        => lifecycle[1] = replay.state

\* Hardening staged the server; the replay set it back to hardening and its
\* configuration run failed.
C16_Regressed ==
    /\ ReplayProcessed /\ replay.done /\ replay.stage = "hardening"
    /\ replay.state = STATE_STAGED /\ lifecycle[1] = STATE_HARDENING
    /\ lastCall.op = "run_playbook" /\ ~lastCall.ok

\* The line is not a lease event the tailer can publish: its bytes do not decode,
\* it is not JSON, not an object, or it lacks ip or mac.
Unusable(bytes, encoding) ==
    LET line == readline(bytes, encoding) IN
    line = UnicodeDecodeError \/ process_dhcp_event(strip(line)) # "publish"

\* The tailer takes a line from the file it follows.
TailerReads == tailer.pc = "tailing" /\ tailer' # tailer

\* C17: for a line that cannot be parsed or that lacks ip or mac, the tailer
\* publishes nothing, records an error and goes on with the next line; no line
\* ends the loop.
C17_BadLineIsDroppedLoopGoesOn ==
    [][TailerReads
         => /\ tailer'.pc = "tailing"
            /\ Unusable(files[tailer.f][tailer.pos + 1], tailer.encoding)
                 => (/\ UNCHANGED <<redisLists, accepted>>
                     /\ logErrors' = logErrors + 1)]_vars

\* The same for lines whose bytes decode in the file's encoding.
C17_DecodedBadLineIsDropped ==
    [][(TailerReads /\ readline(files[tailer.f][tailer.pos + 1], tailer.encoding)
                          # UnicodeDecodeError)
         => /\ tailer'.pc = "tailing"
            /\ Unusable(files[tailer.f][tailer.pos + 1], tailer.encoding)
                 => (/\ UNCHANGED <<redisLists, accepted>>
                     /\ logErrors' = logErrors + 1)]_vars

\* A line of bytes that are not UTF-8 ended the tailer with exit status 1.
C17_LoopEnded ==
    /\ tailer.pc = "exited" /\ tailer.code = 1 /\ tailer.encoding = "utf-8"
    /\ tailer.f # 0
    /\ tailer.pos < Len(files[tailer.f])
    /\ files[tailer.f][tailer.pos + 1] = BytesLine

\* The valid lease lines among those handed to process_dhcp_event.
ValidSeen == Cardinality({i \in 1..Len(seen) : process_dhcp_event(seen[i]) = "publish"})

\* C18: the number of lease events enqueued equals the number of valid lease
\* lines the tailer observed: each is published exactly once.
C18_OnePublishPerValidLine == Len(accepted[QUEUE_DHCP_LEASE]) = ValidSeen

\* No valid line is published more than once.
C18_AtMostOnePublishPerValidLine == Len(accepted[QUEUE_DHCP_LEASE]) <= ValidSeen

\* C19: the tailer handles log rotation and loses no event: every line appended
\* to the log path while the tailer runs is eventually handed to
\* process_dhcp_event, unless the tailer has exited.
C19_RotationLosesNoLine ==
    \A i \in 1..MaxLines :
        (tailer.pc = "tailing" /\ Len(written) >= i)
            ~> (Len(seen) >= i \/ tailer.pc = "exited")

\* The log was rotated and a line written to the new file, while the tailer
\* sits at the end of the old one.
C19_Lost ==
    /\ tailer.pc = "tailing" /\ tailer.f = 1 /\ pathFile = 2
    /\ tailer.pos = Len(files[1])
    /\ files[2] # <<>> /\ Len(seen) < Len(written)

\* C21: whatever the content of a dequeued message and whatever its external
\* calls return, the handler comes back and the worker is in its consumption
\* loop again: no item ends the worker process.
C21_LoopSurvivesEveryItem ==
    [][(main.pc = "process" /\ main' # main) => main'.pc = "loop"]_vars

\* The same for events whose data field is an object or absent.
C21_LoopSurvivesWellFormedItem ==
    [][(main.pc = "process" /\ main' # main /\ ~HandlerRaises(main.event))
         => main'.pc = "loop"]_vars

\* The worker exited with 1 on an event whose data is a string, with a later
\* event still queued.
C21_Exited ==
    /\ main.pc = "exited" /\ main.code = 1 /\ main.ping = "PONG"
    /\ Len(returned[StageQueue(main.stage)]) = 1
    /\ returned[StageQueue(main.stage)][1] = BadDataMessage
    /\ redisLists[StageQueue(main.stage)] # <<>>

\* Once in its loop, a stage never leaves it because the queue server cannot be
\* reached, and an event that waits in the queue is dequeued once the server
\* answers.
C22_OutageNeverEndsTheLoop ==
    /\ [][(main.pc = "loop" /\ main' # main) => main'.pc \in {"loop", "process"}]_vars
    /\ [](bw.pc \in {"idle", "sleep", "find", "refresh", "status", "assign"})
    /\ [][(bw.pc = "idle" /\ lastCall'.by = "bmc_worker" /\ ~lastCall'.ok)
            => (bw'.pc = "sleep" /\ UNCHANGED qBmcDiscovered)]_vars
    /\ [][(qResult'.op = "consume" /\ ~qResult'.ok /\ qResult' # qResult)
            => UNCHANGED <<main, redisLists>>]_vars
    /\ (main.pc = "loop" /\ redisLists[StageQueue(main.stage)] # <<>>)
          ~> (main.pc = "process")
    /\ (bw.pc \in {"idle", "sleep"} /\ qBmcDiscovered # <<>>) ~> (bw.pc = "find")

\* The BMC discovery worker sleeps after a Redis error while an event waits.
C22_Witness == bw.pc = "sleep" /\ qBmcDiscovered # <<>> /\ ~lastCall.ok

\* The discovery worker's consume failed; it is in its loop and an event waits.
C22_WitnessDiscovery ==
    /\ main.pc = "loop" /\ qResult.op = "consume" /\ ~qResult.ok
    /\ redisLists[QUEUE_DHCP_LEASE] # <<>>

\* C22: after startup, loss of queue connectivity never makes a stage exit: the
\* stage sleeps a bounded time and retries the dequeue, and it resumes
\* processing once the queue is reachable again.
C22_OutageSleepsAndRetries ==
    /\ C22_OutageNeverEndsTheLoop
    /\ [][(qResult'.op = "consume" /\ ~qResult'.ok /\ qResult' # qResult)
            => main'.pc = "sleep"]_vars

\* C23: when an inventory call of the discovery worker fails while it processes
\* an event (the IP assignment included), the event is abandoned: the worker is
\* back at its loop, the lifecycle_state of every device is as before, and no
\* device_discovered event is published.
C23_FailedInventoryCallAbandonsEvent ==
    [][(/\ disc.pc \in {"find", "assign", "write"}
        /\ disc' # disc
        /\ lastCall'.by = "discovery"
        /\ ~lastCall'.ok)
          => (disc' = Idle /\ UNCHANGED <<lifecycle, qDisc>>)]_vars

\* The same for the steps other than the IP assignment.
C23_FailedFindOrWriteAbandonsEvent ==
    [][(/\ disc.pc \in {"find", "write"}
        /\ disc' # disc
        /\ lastCall'.by = "discovery"
        /\ ~lastCall'.ok)
          => (disc' = Idle /\ UNCHANGED <<lifecycle, qDisc>>)]_vars

\* A device_discovered event is in the queue for a device whose address was
\* never recorded.
C23_PublishedWithoutAddress ==
    /\ qDisc # <<>>
    /\ ips = {}

\* C24: a step of the monitoring worker leaves the lifecycle_state of every
\* device as it is and sets no custom field other than last_monitored_at and
\* last_power_watts, so under every interleaving with the discovery worker the
\* lifecycle_state of a device changes only by the stage's write, and a device
\* polled by the monitoring worker alone stays ready.
C24_MonitoringNeverWritesState ==
    /\ [][(mon' # mon)
            => /\ lifecycle' = lifecycle
               /\ \A d \in DOMAIN stamps :
                     stamps'[d] \ stamps[d] \subseteq
                        {NETBOX_FIELD_LAST_MONITORED_AT, NETBOX_FIELD_LAST_POWER_WATTS}]_vars
    /\ [][(lifecycle' # lifecycle)
            => (lastCall'.by = "discovery" /\ lastCall'.op = "write_state")]_vars
    /\ [](disc.pc = "idle" /\ qLease = <<>> /\ nLease = 0
            => lifecycle = [d \in Devices |-> STATE_READY])

\* The device was ready when the poll listed it, the discovery worker wrote
\* planned while the poll was under way, and the poll's annotation then
\* succeeded on the planned device.
C24_Witness ==
    /\ lastCall.by = "monitoring" /\ lastCall.op = "annotate" /\ lastCall.ok
    /\ lifecycle[1] = STATE_PLANNED
    /\ stamps[1] = {NETBOX_FIELD_DISCOVERED_AT, NETBOX_FIELD_LAST_MONITORED_AT,
                    NETBOX_FIELD_LAST_POWER_WATTS}

\* The documents in the files of the metrics directory.
DocsOnDisk == {metricsFiles[f] : f \in DOMAIN metricsFiles}

\* C25: when the monitoring worker attempts the annotation of a device, that
\* poll's metrics document is already in its file; the annotation step, failed
\* or not, leaves every file of the metrics directory as it is; and after a
\* failed annotation the loop goes on with the next device of the cycle's list.
C25_DocumentBeforeAnnotation ==
    /\ [](mon.pc = "annotate"
            => [dev |-> mon.devices[mon.k].id, cycle |-> nCycle] \in DocsOnDisk)
    /\ [][(mon.pc = "annotate" /\ mon' # mon)
            => /\ metricsFiles' = metricsFiles
               /\ lastCall'.op = "annotate"]_vars
    /\ [][(mon.pc = "annotate" /\ mon' # mon /\ ~lastCall'.ok)
            => /\ mon'.pc = "collect"
               /\ mon'.k = mon.k + 1
               /\ mon'.devices = mon.devices]_vars

\* The annotation of the first of two ready devices failed; its document is
\* still in the directory and the second device's document was saved after it.
C25_Witness ==
    /\ lastCall.by = "monitoring" /\ lastCall.op = "save_metrics" /\ lastCall.ok
    /\ Len(mon.devices) >= 2 /\ mon.k = 2
    /\ NETBOX_FIELD_LAST_MONITORED_AT \notin stamps[mon.devices[1].id]
    /\ [dev |-> mon.devices[1].id, cycle |-> nCycle] \in DocsOnDisk
    /\ [dev |-> mon.devices[2].id, cycle |-> nCycle] \in DocsOnDisk
    /\ nCycle = 1

\* C26: the monitoring loop never ends because a poll cycle raised: after a
\* failed query of the ready devices the worker sleeps and is back at the start
\* of a cycle, and every cycle that began is followed by the next one.
C26_LoopOutlivesFailedCycle ==
    /\ [](mon.pc \in {"idle", "collect", "metrics", "save", "annotate"})
    /\ [][(lastCall'.op = "get_devices_by_state" /\ mon.pc = "idle" /\ nCycle' # nCycle
             /\ ~lastCall'.ok)
            => (mon' = Idle /\ now' > now /\ UNCHANGED <<lifecycle, stamps, metricsFiles>>)]_vars
    /\ \A c \in 0..(MaxCycles - 1) : (nCycle = c) ~> (nCycle = c + 1)
    /\ (mon.pc # "idle") ~> (mon.pc = "idle")

\* The query of the first cycle failed; the worker slept and waits for the
\* next cycle.
C26_Witness ==
    /\ lastCall.by = "monitoring" /\ lastCall.op = "get_devices_by_state" /\ ~lastCall.ok
    /\ mon = Idle /\ nCycle = 1 /\ now >= 1
    /\ \E d \in Fleet : lifecycle[d] = STATE_READY

\* A successful save made one more file and left the files there were.
SaveMadeNewFile ==
    /\ Cardinality(DOMAIN metricsFiles') = Cardinality(DOMAIN metricsFiles) + 1
    /\ \A f \in DOMAIN metricsFiles : metricsFiles'[f] = metricsFiles[f]

\* C27: each successful poll of a device puts exactly one new document into the
\* metrics directory, and no document written before is overwritten or changed:
\* two polls never write to the same file.
C27_OneNewDocumentPerPoll ==
    [][(mon.pc = "save" /\ mon' # mon /\ lastCall'.ok) => SaveMadeNewFile]_vars

\* The same when the ready devices carry names that differ from each other.
C27_OneNewDocumentPerPollDistinctNames ==
    [][(/\ mon.pc = "save" /\ mon' # mon /\ lastCall'.ok
        /\ \A d, e \in Fleet :
              (lifecycle[d] = STATE_READY /\ lifecycle[e] = STATE_READY /\ d # e)
                 => names[d] # names[e])
          => SaveMadeNewFile]_vars

\* Two polls succeeded and the directory holds one document.
C27_Overwritten ==
    /\ Cardinality(metricsDocs) = 2
    /\ Cardinality(DOMAIN metricsFiles) = 1

\* The stage that publishes to each queue and the stage that consumes from it,
\* as the spec names them.
QueueGrew(q) == Len(q') > Len(q)
QueueShrank(q) == Len(q') < Len(q)

OneProducerPerQueue ==
    [][/\ QueueGrew(qLease) => lastCall'.by = "none"
       /\ QueueGrew(qDisc) => lastCall'.by = "discovery"
       /\ QueueGrew(qPxe) => lastCall'.by = "provisioning"
       /\ QueueGrew(qVal) => lastCall'.by = "callback"
       /\ QueueGrew(qHard) => lastCall'.by = "hardening"]_vars

AtMostOneConsumerPerQueue ==
    [][/\ QueueShrank(qLease) => lastCall'.by = "discovery"
       /\ QueueShrank(qDisc) => lastCall'.by = "provisioning"
       /\ QueueShrank(qVal) => lastCall'.by = "hardening"
       /\ ~QueueShrank(qPxe)
       /\ ~QueueShrank(qHard)]_vars

\* C28: each of the five event types has one producer stage and one consumer
\* stage on a queue of its own: an event is put on a queue by that queue's
\* producer only, and an event on any of the five queues is taken off it by a
\* consumer stage.
C28_OneProducerOneConsumer ==
    /\ OneProducerPerQueue
    /\ (qLease # <<>>) ~> (qLease = <<>>)
    /\ (qDisc # <<>>) ~> (qDisc = <<>>)
    /\ (qPxe # <<>>) ~> (qPxe = <<>>)
    /\ (qVal # <<>>) ~> (qVal = <<>>)
    /\ (qHard # <<>>) ~> (qHard = <<>>)

\* What holds: one producer per queue; the lease, the device_discovered and the
\* validation_completed queue are consumed by one stage each; nothing is ever
\* taken off the other two.
C28_ProducersAndConsumers ==
    /\ OneProducerPerQueue
    /\ AtMostOneConsumerPerQueue

\* Every stage is at rest and events are left on the boot-initiated and the
\* hardening-completed queue.
C28_LeftOver ==
    /\ disc = Idle /\ prov = Idle /\ hard = Idle /\ cb.pc = "idle"
    /\ qLease = <<>> /\ qDisc = <<>> /\ qVal = <<>>
    /\ qPxe # <<>> /\ qHard # <<>>

\* C29: the processing of every event the hardening worker consumed ends with
\* the worker back at its consume loop; a run that hangs ends as a timeout,
\* which counts as a failure: the worker leaves the device's state, hardening,
\* as it is, publishes nothing, and is back at its loop.
C29_HardeningAlwaysReturns ==
    /\ (hard.pc # "idle") ~> (hard.pc = "idle")
    /\ [][(hard.pc = "run" /\ hard.run = "timeout" /\ hard' # hard)
            => /\ hard' = Idle
               /\ ~lastCall'.ok
               /\ UNCHANGED <<lifecycle, stamps, qHard>>]_vars

\* The run hung, the timeout ended it, and the worker is back at its loop with
\* the device in hardening.
C29_Witness ==
    /\ hard = Idle
    /\ lastCall.by = "hardening" /\ lastCall.op = "run_playbook"
    /\ lastCall.result = "timeout" /\ ~lastCall.ok
    /\ lifecycle[lastCall.dev] = STATE_HARDENING

PowerActions == {"power_on", "force_restart"}

\* C30: for each device_discovered event the provisioning worker issues a power
\* action only after the one-time network-boot override was set; it writes
\* lifecycle_state validating and pxe_boot_initiated_at, in one update, only
\* after the power action succeeded; and it publishes pxe_boot_initiated only
\* after that write succeeded.
C30_ProvisioningOrder ==
    /\ [][(lastCall'.by = "provisioning" /\ lastCall'.op \in PowerActions /\ prov' # prov)
            => "pxe" \in prov.done]_vars
    /\ [][(prov.pc = "write" /\ prov' # prov)
            => {"pxe", "power"} \subseteq prov.done]_vars
    /\ [][(lastCall'.by = "provisioning" /\ (lifecycle' # lifecycle \/ stamps' # stamps))
            => /\ "power" \in prov.done
               /\ lifecycle' = [lifecycle EXCEPT ![prov.dev] = STATE_VALIDATING]
               /\ stamps' = [stamps EXCEPT ![prov.dev] =
                                @ \cup {NETBOX_FIELD_PXE_BOOT_INITIATED_AT}]]_vars
    /\ [][(qPxe' # qPxe)
            => /\ lastCall'.by = "provisioning"
               /\ {"pxe", "power", "written"} \subseteq prov.done
               /\ qPxe' = Append(qPxe, [dev |-> prov.dev, ip |-> prov.ip])]_vars

\* The override was set, the power action and the state write succeeded, and
\* the event was published.
C30_Witness ==
    /\ lastCall.by = "provisioning" /\ lastCall.op = "publish" /\ lastCall.ok
    /\ qPxe # <<>>
    /\ lifecycle[1] = STATE_VALIDATING
    /\ NETBOX_FIELD_PXE_BOOT_INITIATED_AT \in stamps[1]

\* The power states that read 'off' whatever the letters' case.
OffSpellings == {<<"O", "f", "f">>, <<"O", "F", "F">>}

\* C31: for one device_discovered event the provisioning worker issues one power
\* action: a power-on when the power state it read is 'off' in any letter case,
\* a forced restart for every other power state; it issues none once the
\* event's power action is done.
C31_OnePowerActionByPowerState ==
    /\ [][(prov.pc = "poweract" /\ prov' # prov /\ prov.power # NullPower)
            => /\ lastCall'.by = "provisioning"
               /\ lastCall'.op = (IF prov.power \in OffSpellings THEN "power_on"
                                  ELSE "force_restart")
               /\ prov'.pc \in {"write", "idle"}]_vars
    /\ [][(lastCall'.by = "provisioning" /\ lastCall'.op \in PowerActions /\ prov' # prov)
            => (prov.pc = "poweract" /\ "power" \notin prov.done)]_vars
    /\ [](prov.pc \in {"write", "publish"} => "power" \in prov.done)

\* The controller reported OFF; the worker is about to act on it.
C31_Witness ==
    /\ prov.pc = "poweract"
    /\ prov.power = <<"O", "F", "F">>
    /\ "pxe" \in prov.done

\* The power-on succeeded and the worker goes on to the state write.
C31_WitnessPoweredOn ==
    /\ prov.pc = "write"
    /\ lastCall.by = "provisioning" /\ lastCall.op = "power_on" /\ lastCall.ok

\* The order of the discovery worker's side effects for one event.
DiscoveryOrder ==
    /\ [][(ips' # ips) => (disc.pc = "assign" /\ lifecycle[disc.dev] = lifecycle'[disc.dev])]_vars
    /\ [][(lifecycle' # lifecycle) => (disc.pc = "write" /\ qDisc' = qDisc)]_vars
    /\ [][(qDisc' # qDisc)
            => /\ disc.pc = "publish"
               /\ lifecycle[disc.dev] = STATE_PLANNED
               /\ NETBOX_FIELD_DISCOVERED_AT \in stamps[disc.dev]]_vars

\* C32: the discovery worker writes the IP, then the state, then publishes, and
\* publishes only after the state write succeeded; so when the worker died
\* after the IP write and before the publish and the same lease is processed
\* again, a published discovery event finds the inventory as an uninterrupted
\* run leaves it: the device planned, and at most one record of the leased
\* address on the interface.
C32_CrashBeforePublishIsSafe ==
    /\ DiscoveryOrder
    /\ [](qDisc # <<>>
            => /\ lifecycle[1] = STATE_PLANNED
               /\ \A i \in ifaces : Cardinality(IpsOn(i.id)) <= 1)

\* The same against an inventory that rejects a duplicate address.
C32_CrashBeforePublishIsSafeUnique ==
    /\ DiscoveryOrder
    /\ [](qDisc # <<>> /\ enforceUnique
            => /\ lifecycle[1] = STATE_PLANNED
               /\ \A i \in ifaces : Cardinality(IpsOn(i.id)) <= 1)

\* After a crash and the second processing the event is published and the
\* interface holds the address twice.
C32_TwoRecords ==
    /\ Len(qDisc) = 1
    /\ nLease = 2
    /\ \E i \in ifaces : Cardinality(IpsOn(i.id)) = 2

\* The reported interfaces the callback has to write: those with a name and a
\* MAC whose name is not the out-of-band interface's.
OutOfBandNames == {ILO, BmcName}
Reportable(iface) ==
    iface.name # <<>> /\ iface.mac # <<>> /\ iface.name \notin OutOfBandNames

\* C33: for every reported interface with a name and a MAC that is not the
\* out-of-band interface the callback looks the interface up by device and
\* name and writes it with the reported MAC; every other reported interface is
\* passed over, and no record named as the out-of-band interface is created or
\* changed by the callback.
C33_UpsertsAllButOutOfBand ==
    /\ [][(cb.pc = "ifaces" /\ cb' # cb /\ cb.todo # <<>>)
            => IF Reportable(Head(cb.todo))
               THEN /\ lastCall'.by = "callback" /\ lastCall'.op = "find_interface"
                    /\ lastCall'.ok => cb'.pc = "upsert"
               ELSE cb'.pc = "ifaces" /\ cb'.todo = Tail(cb.todo)]_vars
    /\ [][(cb.pc = "upsert" /\ cb' # cb)
            => /\ Reportable(Head(cb.todo))
               /\ lastCall'.op = "write_interface"
               /\ lastCall'.ok =>
                     \E i \in ifaces' : /\ i.device = cb.device_id
                                         /\ i.name = Head(cb.todo).name
                                         /\ i.mac = Head(cb.todo).mac]_vars
    /\ [][\A i \in (ifaces' \ ifaces) \cup (ifaces \ ifaces') :
              i.name \notin OutOfBandNames]_vars

\* The report named iLO, a nameless interface and eth0: eth0 was written with
\* its MAC, and the out-of-band interface of the device is as it was.
C33_Witness ==
    /\ cb.pc = "ifaces" /\ cb.todo = <<>>
    /\ \E i \in ifaces : i.device = cb.device_id /\ i.name = Eth0 /\ i.mac = OtherMac
    /\ \A i \in ifaces : i.name # ILO
    /\ [id |-> 1, device |-> 1, name |-> BmcName, mac |-> BmcMac] \in ifaces

\* C34: the discovery worker resolves a lease to the controller's interface and
\* its device whenever the lease's hardware address is the interface's address
\* up to letter case and the delimiter: such a lease is never left unresolved.
C34_SpellingDoesNotMatter ==
    [][(disc.pc = "find" /\ disc' # disc /\ lastCall'.ok
            /\ mac_normalized(disc.mac) = BmcMac)
          => /\ disc'.pc = "assign"
             /\ disc'.iface = 1 /\ disc'.dev = 1
             /\ errLog' = errLog]_vars

\* The same for the dhcp-lease-worker, which normalizes the address itself.
C34_LeaseWorkerSpellingDoesNotMatter ==
    [][(lw.pc = "find" /\ lw' # lw /\ lastCall'.ok /\ lw.network_type = "bmc"
            /\ mac_normalized(lw.mac) = BmcMac)
          => (lw'.pc = "assign" /\ lw'.iface = 1 /\ lw'.dev = 1)]_vars

\* The lease spelled in lower case with dashes was recorded as MAC_NOT_FOUND.
C34_Unresolved ==
    /\ lower(replace(BmcMac, ":", "-")) \in errLog
    /\ disc = Idle

\* C35: the [3/3] step of a management lease finds the leased address with a /24
\* mask on the device's mgmt0 interface; it sets lifecycle_state to provisioning
\* when the device was in offline or discovered (and the write succeeds), and
\* leaves lifecycle_state as it was for a device in any other state.
C35_ManagementLease ==
    [][(lw.pc = "state" /\ lw' # lw /\ lw.network_type = "management")
          => LET before == lifecycle[lw.dev] IN
             /\ \E i \in ifaces : i.id = lw.iface /\ i.device = lw.dev /\ i.name = Mgmt0Name
             /\ \E r \in ips : r.iface = lw.iface /\ r.address = <<lw.ip, 24>>
             /\ ips' = ips
             /\ IF before \in {"offline", "discovered"}
                THEN /\ lastCall'.ok => lifecycle'[lw.dev] = "provisioning"
                     /\ ~lastCall'.ok => lifecycle' = lifecycle
                ELSE lifecycle' = lifecycle]_vars

\* A management lease moved a discovered device to provisioning, and one left a
\* device in another state alone.
C35_Witness ==
    /\ lastCall.by = "lease_worker" /\ lastCall.op = "write_state" /\ lastCall.ok
    /\ lastCall.before = "discovered" /\ lastCall.after = "provisioning"
    /\ lifecycle[lastCall.dev] = "provisioning"
    /\ \E i \in ifaces, r \in ips :
          /\ i.name = Mgmt0Name /\ i.device = lastCall.dev
          /\ r.iface = i.id /\ r.address[2] = 24

C35_WitnessOtherState ==
    /\ lastCall.by = "lease_worker" /\ lastCall.op = "keep_state"
    /\ lifecycle[lastCall.dev] = STATE_VALIDATING
    /\ \E i \in ifaces, r \in ips :
          /\ i.name = Mgmt0Name /\ i.device = lastCall.dev
          /\ r.iface = i.id /\ r.address[2] = 24

C36_WitnessReplay ==
    /\ bw.pc = "assign" /\ status[bw.dev] = "discovered"
    /\ lastCall.by = "bmc_worker" /\ lastCall.op = "find_device"
    /\ "state" \in journal[bw.dev]
    /\ \E r \in ips : r.iface = bw.iface /\ r.address = <<bw.ip, 24>>

\* A device in another status was seen and kept its status.
C36_WitnessOtherStatus ==
    /\ lastCall.by = "bmc_worker" /\ lastCall.op = "assign_ip"
    /\ status[lastCall.dev] = "planned"

RejectedAtOnce(event) ==
    \/ "mac_address" \notin DOMAIN event
    \/ "ip_address" \notin DOMAIN event
    \/ "network_type" \notin DOMAIN event
    \/ event.network_type \notin {"bmc", "management"}

\* C38: the lease worker changes lifecycle_state only in the step that follows
\* the successful IP assignment of the same event, when the leased address is
\* on the interface found for it.  An event with an unknown network class or
\* without mac_address or ip_address, an unresolvable MAC and a failed
\* assignment leave every lifecycle_state as it was and the worker back at its
\* queue.
C38_StateOnlyAfterAssignment ==
    [][(lw' # lw)
          => /\ lifecycle' # lifecycle
                  => /\ lw.pc = "state"
                     /\ lw.network_type \in {"bmc", "management"}
                     /\ \E r \in ips : r.iface = lw.iface /\ r.address = <<lw.ip, 24>>
             /\ (lw.pc = "idle" /\ RejectedAtOnce(qNetboxLeases[Len(qNetboxLeases)]))
                  => lw' = Idle /\ lifecycle' = lifecycle
             /\ (lw.pc = "find" /\ \A i \in ifaces : i.mac # mac_normalized(lw.mac))
                  => lw' = Idle /\ lifecycle' = lifecycle
             /\ (lw.pc = "assign" /\ ~lastCall'.ok)
                  => lw' = Idle /\ lifecycle' = lifecycle
             /\ lw'.pc \in {"idle", "find", "assign", "state"}]_vars

\* Two events were rejected and the worker is back at its queue with every
\* device where it was.
C38_Witness ==
    /\ nLease = 2 /\ qNetboxLeases = <<>> /\ lw = Idle
    /\ lastCall.by = "lease_worker" /\ lastCall.op \in {"consume", "find_device", "assign_ip"}
    /\ ips = {}
    /\ \A d \in Devices : lifecycle[d] = STATE_OFFLINE

C39_BothAnswered ==
    /\ cb = CbIdle(200) /\ cbWaiting = CbIdle(200) /\ nCb = 2
    /\ Len(qVal) = 2
    /\ Cardinality({i \in ifaces : i.name = Eth0}) = 1
    /\ \A d \in Devices : lifecycle[d] = STATE_VALIDATED
====
